---- MODULE Spec2Model ----
(***************************************************************************)
(* Verification model of the fractal visualizer (fractales_visualizador).   *)
(*                                                                         *)
(* Numbers.  The program computes with IEEE doubles; the model computes    *)
(* with fixed-point integers: a coordinate or a length v is represented by *)
(* the integer nearest to v*S (S units per pixel).  A multiplication by a  *)
(* decimal constant or a division is carried out on integers and rounded   *)
(* to the nearest unit (RoundDiv).  Python's round() is modelled exactly   *)
(* on that representation (round half to even, PyRound).                   *)
(*                                                                         *)
(* Drawing.  A pygame surface is represented by its size <<width,height>>  *)
(* and by the sequence of drawing operations applied to it.  A recursive   *)
(* engine is an operator that returns the operations it emits, in the      *)
(* order in which the code emits them.                                     *)
(***************************************************************************)
EXTENDS Integers, Naturals, Sequences, FiniteSets, TLC

VARIABLES
  fn,      \* the function under call ("koch_curve", "sierpinski.draw", ...)
  args,    \* its arguments (a record)
  out,     \* what it returned / emitted (a record), NoOut before the call
  pc,      \* "call" before the call, "done" after it, or a position inside it
  rng,     \* state of the global generator of module random
  loop,    \* local variables of the loop or recursion in progress, else NoLoop
  stack,   \* pending calls and continuations of a recursion, next one first
  prev,    \* what the previous call of the same entry emitted, else NoOut
  app      \* the fields of the FractalVisualizer object, else NoApp

NoLoop == [none |-> TRUE]

NoOut == [none |-> TRUE]

NoApp == [none |-> TRUE]

vars == <<fn, args, out, pc, rng, loop, stack, prev, app>>

-----------------------------------------------------------------------------
(* Fixed-point arithmetic                                                  *)

\* units per pixel of the fixed-point representation
S == 100

\* a / b rounded to the nearest integer (b > 0)
RoundDiv(a, b) == (2 * a + b) \div (2 * b)

Abs(a) == IF a < 0 THEN -a ELSE a

Min(a, b) == IF a <= b THEN a ELSE b

Max(a, b) == IF a >= b THEN a ELSE b

\* a whole number of pixels as a fixed-point value
Px(n) == n * S

\* int(round(v)): Python 3 rounds half to even
PyRound(v) ==
  LET q == v \div S
      r == v % S
  IN  IF 2 * r < S THEN q
      ELSE IF 2 * r > S THEN q + 1
      ELSE IF q % 2 = 0 THEN q ELSE q + 1

RECURSIVE SqrtIter(_, _, _)
SqrtIter(n, lo, hi) ==
  IF lo >= hi THEN lo
  ELSE LET mid == (lo + hi + 1) \div 2
       IN  IF mid * mid <= n THEN SqrtIter(n, mid, hi)
           ELSE SqrtIter(n, lo, mid - 1)

\* math.sqrt on a non-negative integer (floor of the root)
ISqrt(n) == SqrtIter(n, 0, 46340)

\* v * sqrt(3) * 0.5
HalfSqrt3(v) == RoundDiv(v * 8660, 10000)

RECURSIVE Pow(_, _)
Pow(b, e) == IF e <= 0 THEN 1 ELSE b * Pow(b, e - 1)

\* 0 <= x <= width and 0 <= y <= height on rounded coordinates
InRaster(pos, size) ==
  /\ 0 <= pos[1] /\ pos[1] <= size[1]
  /\ 0 <= pos[2] /\ pos[2] <= size[2]

-----------------------------------------------------------------------------
(* fractals/koch.py                                                        *)

\* nesting of Python calls after which the interpreter raises RecursionError
RecursionLimit == 16

\* koch.py:19-36, the base case of koch_curve: one segment p1 -> p2.
\* fails: pygame.draw.line raises pygame.error for this segment.
KochBase(p1, p2, size, color, line_width, fails) ==
  LET start_pos == <<PyRound(p1[1]), PyRound(p1[2])>>
      end_pos   == <<PyRound(p2[1]), PyRound(p2[2])>>
      valid     == InRaster(start_pos, size) /\ InRaster(end_pos, size)
  IN  [op |-> "line", p1 |-> p1, p2 |-> p2,
       start_pos |-> start_pos, end_pos |-> end_pos,
       color |-> color, width |-> line_width,
       passed |-> valid,               \* pygame.draw.line was called
       drawn  |-> valid /\ ~fails]     \* and it drew the line

\* koch.py:38-68, the five points of one subdivision
KochPoints(p1, p2) ==
  LET x1 == p1[1]
      y1 == p1[2]
      x5 == p2[1]
      y5 == p2[2]
      dx == RoundDiv(x5 - x1, 3)
      dy == RoundDiv(y5 - y1, 3)
      x2 == x1 + dx
      y2 == y1 + dy
      x4 == x1 + 2 * dx
      y4 == y1 + 2 * dy
      mid_x == RoundDiv(x2 + x4, 2)
      mid_y == RoundDiv(y2 + y4, 2)
      side_length == ISqrt(dx * dx + dy * dy)
      height == HalfSqrt3(side_length)
      perp_x == IF side_length > 0
                THEN -RoundDiv(RoundDiv(dy * 10000, side_length) * height, 10000)
                ELSE 0
      perp_y == IF side_length > 0
                THEN RoundDiv(RoundDiv(dx * 10000, side_length) * height, 10000)
                ELSE 0
      x3 == mid_x + perp_x
      y3 == mid_y + perp_y
  IN  << <<x1, y1>>, <<x2, y2>>, <<x3, y3>>, <<x4, y4>>, <<x5, y5>> >>

NoVisits == [visits |-> << >>, raised |-> FALSE, nesting |-> 0]

\* what a call returns once a call below it has raised: the exception
\* propagates, the remaining recursive calls are not made
Then(r1, r2) ==
  IF r1.raised THEN r1
  ELSE [visits |-> r1.visits \o r2.visits, raised |-> r2.raised,
        nesting |-> Max(r1.nesting, r2.nesting)]

RECURSIVE koch_curve(_, _, _, _, _, _, _, _, _)
RECURSIVE KochCalls(_, _, _, _, _, _, _, _, _, _)

\* what follows the call that returned r: the exception propagates, or the
\* calls i + 1 .. last are made
KochRest(r, q, i, last, depth, size, color, line_width, failAt, k, level) ==
  IF r.raised THEN r
  ELSE Then(r, KochCalls(q, i + 1, last, depth, size, color, line_width, failAt,
                         k + Len(r.visits), level))

\* koch.py:71-74 (and 105-108): the calls of koch_curve on the segments
\* q[i] -> q[i+1], ..., q[last] -> q[last+1], one after the other
KochCalls(q, i, last, depth, size, color, line_width, failAt, k, level) ==
  IF i > last THEN NoVisits
  ELSE KochRest(koch_curve(q[i], q[i + 1], depth, size, color, line_width, failAt,
                           k, level),
                q, i, last, depth, size, color, line_width, failAt, k, level)

\* koch_curve without its last recursive call (koch.py:74 left out)
koch_curve_no_last_third(p1, p2, depth, size, color, line_width, failAt, k, level) ==
  IF level > RecursionLimit
  THEN [visits |-> << >>, raised |-> TRUE, nesting |-> level]
  ELSE IF depth = 0
  THEN [visits |-> << KochBase(p1, p2, size, color, line_width, k + 1 = failAt) >>,
        raised |-> FALSE, nesting |-> level]
  ELSE KochCalls(KochPoints(p1, p2), 1, 3, depth - 1, size, color, line_width, failAt,
                 k, level + 1)

\* koch.py:5-74.  Returns the base cases reached, in order, whether the
\* call ended with an exception (RecursionError), and the deepest nesting of
\* calls it reached.  failAt is the number of the base case whose
\* pygame.draw.line raises (0: none), k the number of base cases reached
\* before this call, level the nesting of the call.
koch_curve(p1, p2, depth, size, color, line_width, failAt, k, level) ==
  IF level > RecursionLimit
  THEN [visits |-> << >>, raised |-> TRUE, nesting |-> level]
  ELSE IF depth = 0
  THEN [visits |-> << KochBase(p1, p2, size, color, line_width, k + 1 = failAt) >>,
        raised |-> FALSE, nesting |-> level]
  ELSE KochCalls(KochPoints(p1, p2), 1, 4, depth - 1, size, color, line_width, failAt,
                 k, level + 1)

\* the lines a sequence of base cases put on the surface
LinesDrawn(visits) == SelectSeq(visits, LAMBDA v : v.drawn)

-----------------------------------------------------------------------------
(* koch_curve called directly                                              *)

\* largest depth of the Koch curve (max_iterations["Koch"])
KochMaxDepth == 7

KochSize == <<300, 200>>

White == <<255, 255, 255>>

\* endpoints, in pixels: inside the raster, partly or wholly outside it,
\* horizontal, vertical, slanted and of length zero
KochEndpoints ==
  { << <<0, 100>>, <<300, 100>> >>,
    << <<30, 100>>, <<270, 100>> >>,
    << <<150, 20>>, <<150, 180>> >>,
    << <<60, 40>>, <<240, 130>> >>,
    << <<-30, 100>>, <<330, 100>> >>,
    << <<0, 190>>, <<300, 190>> >>,
    << <<150, 100>>, <<150, 100>> >> }

\* the base case whose drawing raises pygame.error (0: none)
KochFailures == {0, 2}

KochInputs ==
  { [p1 |-> <<Px(e[1][1]), Px(e[1][2])>>, p2 |-> <<Px(e[2][1]), Px(e[2][2])>>,
     depth |-> d, size |-> KochSize, failAt |-> f] :
      e \in KochEndpoints, d \in 0..KochMaxDepth, f \in KochFailures }

InitKoch ==
  /\ fn = "koch_curve"
  /\ args \in KochInputs
  /\ out = NoOut
  /\ pc = "call"
  /\ rng = 0
  /\ loop = NoLoop
  /\ stack = << >>
  /\ prev = NoOut
  /\ app = NoApp

KochCurveCall ==
  /\ pc = "call"
  /\ fn = "koch_curve"
  /\ out' = koch_curve(args.p1, args.p2, args.depth, args.size, White, 1,
                       args.failAt, 0, 1)
  /\ pc' = "done"
  /\ UNCHANGED <<app, prev, fn, args, rng, loop, stack>>

NextKoch == KochCurveCall

SpecKoch == InitKoch /\ [][NextKoch]_vars

-----------------------------------------------------------------------------
(* Claims about koch_curve                                                 *)

KochDone == pc = "done" /\ fn = "koch_curve"

\* every base case has both rounded endpoints inside the raster
AllInside(visits, size) ==
  \A i \in 1..Len(visits) :
    InRaster(visits[i].start_pos, size) /\ InRaster(visits[i].end_pos, size)

LinesPassed(visits) == SelectSeq(visits, LAMBDA v : v.passed)

\* C1: for every depth d in 0..7 and any endpoints, koch_curve reaches its
\* base case exactly 4^d times; when every segment lies inside the raster
\* exactly 4^d lines are passed to pygame.draw.line (and drawn, unless the
\* primitive itself fails); at depth 0 the single segment is p1 -> p2.
C1_KochCount ==
  KochDone =>
    /\ ~out.raised
    /\ Len(out.visits) = Pow(4, args.depth)
    /\ AllInside(out.visits, args.size) =>
         /\ Len(LinesPassed(out.visits)) = Pow(4, args.depth)
         /\ args.failAt = 0 => Len(LinesDrawn(out.visits)) = Pow(4, args.depth)
    /\ args.depth = 0 =>
         /\ out.visits[1].p1 = args.p1
         /\ out.visits[1].p2 = args.p2

\* a curve of depth 7 wholly inside the raster has been drawn
C1_Witness ==
  /\ KochDone
  /\ args.depth = KochMaxDepth
  /\ args.failAt = 0
  /\ AllInside(out.visits, args.size)
  /\ Len(LinesDrawn(out.visits)) = 16384

\* C17: koch_curve((0,100), (300,100), depth=1) emits exactly 4 segments in
\* the order first third, left edge, right edge, last third, each starting
\* where the previous one ends: (0,100) -> (100,100) -> apex -> (200,100) ->
\* (300,100), where the apex has x = 150 and is above the midpoint of the
\* input segment, that is, has a y smaller than 100.
C17_FourSegments ==
  (KochDone /\ args.depth = 1
     /\ args.p1 = <<Px(0), Px(100)>> /\ args.p2 = <<Px(300), Px(100)>>) =>
    /\ Len(out.visits) = 4
    /\ \A i \in 1..3 : out.visits[i].p2 = out.visits[i + 1].p1
    /\ out.visits[1].p1 = <<Px(0), Px(100)>>
    /\ out.visits[1].p2 = <<Px(100), Px(100)>>
    /\ out.visits[2].p2[1] = Px(150)
    /\ out.visits[2].p2[2] < Px(100)
    /\ out.visits[3].p2 = <<Px(200), Px(100)>>
    /\ out.visits[4].p2 = <<Px(300), Px(100)>>

-----------------------------------------------------------------------------
(* Module random.  The Mersenne Twister is represented by a small linear   *)
(* congruential generator: what matters to the program is that each call   *)
(* advances a hidden state and returns a value determined by that state.   *)

RngNext(s) == (25173 * s + 13849) % 65536

\* random.choice over a sequence of n elements: the index chosen in state s
RngIndex(s, n) == 1 + ((s \div 64) % n)

\* random.uniform(a, b) in state s
RngUniform(a, b, s) == a + RoundDiv((b - a) * (s \div 64), 1024)

-----------------------------------------------------------------------------
(* fractals/sierpinski.py                                                  *)

Green == <<0, 255, 0>>

Warning == <<255, 180, 0>>

\* sierpinski.py:6-43.  fails: pygame.draw.polygon raises pygame.error.
draw_triangle(size, p1, p2, p3, color, filled, line_width, fails) ==
  LET points == << <<PyRound(p1[1]), PyRound(p1[2])>>,
                   <<PyRound(p2[1]), PyRound(p2[2])>>,
                   <<PyRound(p3[1]), PyRound(p3[2])>> >>
      valid_points == \A i \in 1..3 : InRaster(points[i], size)
      distinct == Cardinality({points[1], points[2], points[3]}) = 3
  IN  [op |-> "polygon", p1 |-> p1, p2 |-> p2, p3 |-> p3, points |-> points,
       color |-> color, filled |-> filled,
       width |-> IF filled THEN 0 ELSE Max(1, line_width),
       passed |-> valid_points /\ distinct,            \* pygame.draw.polygon was called
       drawn  |-> valid_points /\ distinct /\ ~fails]  \* and it drew the triangle

\* sierpinski.py:61-64
TriangleSize(p1, p2, p3) ==
  Max(Max(Max(Abs(p1[1] - p2[1]), Abs(p1[1] - p3[1])), Abs(p2[1] - p3[1])),
      Max(Max(Abs(p1[2] - p2[2]), Abs(p1[2] - p3[2])), Abs(p2[2] - p3[2])))

\* sierpinski.py:70-82, the base case: one call of draw_triangle
SierpinskiBase(size, p1, p2, p3, color, variant, fails) ==
  LET triangle_size == TriangleSize(p1, p2, p3)
      intensity == Max(50, Min(255, (triangle_size * 2) \div S))
  IN  IF variant = "filled"
      THEN draw_triangle(size, p1, p2, p3, color, TRUE, 1, fails)
      ELSE IF variant = "gradient"
      THEN draw_triangle(size, p1, p2, p3,
                         <<intensity, intensity \div 2, 255 - intensity \div 2>>,
                         TRUE, 1, fails)
      ELSE draw_triangle(size, p1, p2, p3, color, FALSE,
                         Max(1, triangle_size \div (100 * S)), fails)

\* (a + b) * 0.5 on points
Midpoint(a, b) == <<RoundDiv(a[1] + b[1], 2), RoundDiv(a[2] + b[2], 2)>>

\* sierpinski.py:45-92.  Returns the calls of draw_triangle, in order.
\* failAt: the call of draw_triangle whose pygame.draw.polygon raises (0: none);
\* k: the calls of draw_triangle made before this call.
RECURSIVE sierpinski_triangle(_, _, _, _, _, _, _, _, _, _)
sierpinski_triangle(size, p1, p2, p3, depth, color, variant, min_size, failAt, k) ==
  IF TriangleSize(p1, p2, p3) < min_size THEN << >>
  ELSE IF depth = 0
  THEN << SierpinskiBase(size, p1, p2, p3, color, variant, k + 1 = failAt) >>
  ELSE
    LET m1 == Midpoint(p1, p2)
        m2 == Midpoint(p2, p3)
        m3 == Midpoint(p3, p1)
        t1 == sierpinski_triangle(size, p1, m1, m3, depth - 1, color, variant,
                                  min_size, failAt, k)
        t2 == sierpinski_triangle(size, m1, p2, m2, depth - 1, color, variant,
                                  min_size, failAt, k + Len(t1))
        t3 == sierpinski_triangle(size, m3, m2, p3, depth - 1, color, variant,
                                  min_size, failAt, k + Len(t1) + Len(t2))
    IN  t1 \o t2 \o t3

\* the three vertices used by draw (scale800 = 800: sierpinski.py:206-213) and
\* by the chaos game (scale1000 = 750: sierpinski.py:110-119)
SierpinskiVertices(size, scale1000) ==
  LET side == RoundDiv(Px(Min(size[1], size[2])) * scale1000, 1000)
      center_x == RoundDiv(Px(size[1]), 2)
      center_y == RoundDiv(Px(size[2]), 2)
      height_triangle == HalfSqrt3(side)
  IN  << <<center_x, center_y - RoundDiv(height_triangle * 667, 1000)>>,
         <<center_x - RoundDiv(side, 2), center_y + RoundDiv(height_triangle * 333, 1000)>>,
         <<center_x + RoundDiv(side, 2), center_y + RoundDiv(height_triangle * 333, 1000)>> >>

\* sierpinski.py:216, max(1.0, min(width, height) / (3 ** min(iterations, 6)))
MinTriangleSize(size, iterations) ==
  LET m == Px(Min(size[1], size[2]))
      e == Min(iterations, 6)
  IN  Max(Px(1), IF e >= 0 THEN RoundDiv(m, Pow(3, e)) ELSE m * Pow(3, -e))

\* sierpinski.py:228 without the ceiling
ChaosPoints_uncapped(iterations) == iterations * 8000

\* sierpinski.py:228
ChaosPoints(iterations) == Min(100000, iterations * 8000)

FillOp == [op |-> "fill"]

TextOp(color) == [op |-> "text", color |-> color]

\* sierpinski.py:232-240, the note blitted for high iteration counts
SierpinskiNote(iterations) ==
  IF iterations > 8 THEN << TextOp(Warning) >> ELSE << >>

\* sierpinski.py:121-128 and the first test of the loop: the state of the
\* chaos game when its loop starts
ChaosStart(size, n, color, fade_effect, s0) ==
  LET side == RoundDiv(Px(Min(size[1], size[2])) * 750, 1000)
      center_x == RoundDiv(Px(size[1]), 2)
      center_y == RoundDiv(Px(size[2]), 2)
      height_triangle == HalfSqrt3(side)
      s1 == RngNext(s0)
      s2 == RngNext(s1)
  IN  [i |-> 0, n |-> n, color |-> color, fade_effect |-> fade_effect,
       vertices |-> SierpinskiVertices(size, 750),
       start_point |-> <<center_x + RngUniform(-RoundDiv(side, 4), RoundDiv(side, 4), s1),
                         center_y + RngUniform(-RoundDiv(height_triangle, 4),
                                               RoundDiv(height_triangle, 4), s2)>>,
       current_point |-> <<center_x + RngUniform(-RoundDiv(side, 4), RoundDiv(side, 4), s1),
                           center_y + RngUniform(-RoundDiv(height_triangle, 4),
                                                 RoundDiv(height_triangle, 4), s2)>>,
       rng |-> s2,
       plotted |-> 0,          \* calls of surface.set_at so far
       first |-> -1,           \* loop index of the first call of set_at
       last |-> << >>]         \* the last call of set_at: <<x, y, colour>>

\* sierpinski.py:121-128 with the two values of random.uniform given as
\* u1, u2 in 0..1023, their place between the ends of the interval
ChaosStartAt(size, n, color, fade_effect, u1, u2) ==
  LET side == RoundDiv(Px(Min(size[1], size[2])) * 750, 1000)
      center_x == RoundDiv(Px(size[1]), 2)
      center_y == RoundDiv(Px(size[2]), 2)
      height_triangle == HalfSqrt3(side)
      start == <<center_x + RngUniform(-RoundDiv(side, 4), RoundDiv(side, 4), 64 * u1),
                 center_y + RngUniform(-RoundDiv(height_triangle, 4),
                                       RoundDiv(height_triangle, 4), 64 * u2)>>
  IN  [i |-> 0, n |-> n, color |-> color, fade_effect |-> fade_effect,
       vertices |-> SierpinskiVertices(size, 750),
       start_point |-> start, current_point |-> start,
       rng |-> 0, plotted |-> 0, first |-> -1, last |-> << >>]

\* sierpinski.py:133-149, one iteration of the loop for the vertex that
\* random.choice returned
ChaosMove(size, st, index) ==
  LET target_vertex == st.vertices[index]
      point == Midpoint(st.current_point, target_vertex)
      x == PyRound(point[1])
      y == PyRound(point[2])
      plot == /\ st.i > 20
              /\ 0 <= x /\ x < size[1]
              /\ 0 <= y /\ y < size[2]
  IN  [st EXCEPT !.i = st.i + 1,
                 !.current_point = point,
                 !.plotted = IF plot THEN st.plotted + 1 ELSE st.plotted,
                 !.first = IF plot /\ st.first < 0 THEN st.i ELSE st.first,
                 !.last = IF plot THEN <<x, y, st.color>> ELSE st.last]

\* sierpinski.py:131-149, one iteration of the loop of the chaos game
ChaosIteration(size, st) ==
  LET s1 == RngNext(st.rng)
  IN  [ChaosMove(size, st, RngIndex(s1, 3)) EXCEPT !.rng = s1]

\* sierpinski.py:193-229, draw up to the choice of the method.  The
\* recursive method runs to its end; the chaos game starts its loop.
SierpinskiDrawCall ==
  /\ pc = "call"
  /\ fn = "sierpinski.draw"
  /\ LET size == args.size
         iterations == args.iterations
         v == SierpinskiVertices(size, 800)
         color_intensity == Max(150, 255 - iterations * 15)
         color == <<color_intensity, color_intensity, 255>>
     IN  IF iterations <= 7
         THEN /\ out' = [ops |-> << FillOp >>
                                  \o sierpinski_triangle(size, v[1], v[2], v[3], iterations,
                                        color, "outline",
                                        MinTriangleSize(size, iterations), args.failAt, 0)
                                  \o SierpinskiNote(iterations),
                         method |-> "recursive", points |-> 0, plotted |-> 0,
                         first |-> -1, last |-> << >>]
              /\ pc' = "done"
              /\ UNCHANGED <<rng, loop>>
         ELSE /\ loop' = ChaosStart(size, ChaosPoints(iterations), Green, TRUE, rng)
              /\ out' = [ops |-> << FillOp >>, method |-> "chaos",
                         points |-> 0, plotted |-> 0,
                         first |-> -1, last |-> << >>]
              /\ pc' = "chaos"
              /\ UNCHANGED rng
  /\ UNCHANGED <<app, prev, fn, args, stack>>

\* sierpinski.py:131-149, one iteration of the loop
ChaosStep ==
  /\ pc = "chaos"
  /\ loop.i < loop.n
  /\ loop' = ChaosIteration(args.size, loop)
  /\ UNCHANGED <<app, prev, fn, args, out, pc, rng, stack>>

\* sierpinski.py:151-152 and 231-240: the loop is over, the surface is
\* unlocked and draw blits its note
ChaosEnd ==
  /\ pc = "chaos"
  /\ loop.i >= loop.n
  /\ out' = [out EXCEPT !.ops = out.ops \o (IF fn = "sierpinski.draw"
                                           THEN SierpinskiNote(args.iterations)
                                           ELSE << >>),
                        !.points = loop.i,      \* points generated by the loop
                        !.plotted = loop.plotted,
                        !.first = loop.first,
                        !.last = loop.last]
  /\ rng' = loop.rng
  /\ loop' = NoLoop
  /\ pc' = "done"
  /\ UNCHANGED <<app, prev, fn, args, stack>>

\* the calls of draw_triangle among the operations of a render
Triangles(ops) == SelectSeq(ops, LAMBDA o : o.op = "polygon")

-----------------------------------------------------------------------------
(* sierpinski.draw called on a fresh raster                                *)

\* largest depth drawn by recursive subdivision (sierpinski.py:219)
SierpinskiRecursiveMax == 7

SierpinskiSizes == { <<1000, 800>>, <<400, 300>>, <<200, 200>>, <<120, 160>>, <<60, 40>> }

\* raster of the chaos game
ChaosSize == <<200, 200>>

SierpinskiInputs ==
  { [size |-> sz, iterations |-> d, failAt |-> f] :
      sz \in SierpinskiSizes, d \in 0..SierpinskiRecursiveMax, f \in {0, 2} }
  \cup { [size |-> ChaosSize, iterations |-> d, failAt |-> 0] : d \in {8, 9} }

InitSierpinski ==
  /\ fn = "sierpinski.draw"
  /\ args \in SierpinskiInputs
  /\ out = NoOut
  /\ pc = "call"
  /\ rng \in {1, 40503}
  /\ loop = NoLoop
  /\ stack = << >>
  /\ prev = NoOut
  /\ app = NoApp

NextSierpinski == SierpinskiDrawCall \/ ChaosStep \/ ChaosEnd

SpecSierpinski == InitSierpinski /\ [][NextSierpinski]_vars

-----------------------------------------------------------------------------
(* Claims about sierpinski.draw                                            *)

SierpinskiDone == pc = "done" /\ fn = "sierpinski.draw"

\* C2: for every depth d from 0 to 7, sierpinski.draw(surface, d) on a
\* W x H raster passes exactly 3^d triangles to draw_triangle.
C2_TriangleCount ==
  (SierpinskiDone /\ args.iterations <= SierpinskiRecursiveMax) =>
    Len(Triangles(out.ops)) = Pow(3, args.iterations)

\* rasters and depths for the choice of the method: every depth of the
\* recursive method, the first depth of the chaos game, and the depths around
\* the ceiling of its points
MethodInputs ==
  { [size |-> <<60, 40>>, iterations |-> d, failAt |-> 0] : d \in (-2)..SierpinskiRecursiveMax }
  \cup { [size |-> <<20, 20>>, iterations |-> d, failAt |-> 0] : d \in {8, 12, 13, 14} }

InitSierpinskiMethod ==
  /\ fn = "sierpinski.draw"
  /\ args \in MethodInputs
  /\ out = NoOut
  /\ pc = "call"
  /\ rng = 1
  /\ loop = NoLoop
  /\ stack = << >>
  /\ prev = NoOut
  /\ app = NoApp

SpecSierpinskiMethod == InitSierpinskiMethod /\ [][NextSierpinski]_vars

\* C11: sierpinski.draw uses the recursive subdivision only for iterations
\* up to 7; for every larger iterations it runs the chaos game, passes no
\* triangle to draw_triangle, and its loop generates min(100000,
\* iterations * 8000) points, never more than 100000.
C11_MethodByDepth ==
  /\ (pc = "chaos" /\ fn = "sierpinski.draw") =>
       /\ args.iterations > 7
       /\ loop.i <= 100000
       /\ Triangles(out.ops) = << >>
  /\ SierpinskiDone =>
       IF args.iterations <= 7
       THEN out.method = "recursive" /\ out.points = 0
       ELSE /\ out.method = "chaos"
            /\ Triangles(out.ops) = << >>
            /\ out.points = (IF args.iterations * 8000 < 100000
                             THEN args.iterations * 8000 ELSE 100000)

\* the chaos game ran for a depth whose product is above the ceiling
C11_Witness ==
  /\ SierpinskiDone
  /\ args.iterations = 13
  /\ out.method = "chaos"
  /\ out.points = 100000

-----------------------------------------------------------------------------
(* sierpinski_chaos_game called on a fresh raster, for every value that    *)
(* module random may return                                                *)

\* places of the values of random.uniform between the ends of the interval
UniformDraws == {0, 1023}

ChaosGameInputs ==
  { [size |-> sz, iterations |-> n, failAt |-> 0] : sz \in { <<2, 2>> }, n \in {0, 22} }

InitChaosGame ==
  /\ fn = "sierpinski_chaos_game"
  /\ args \in ChaosGameInputs
  /\ out = NoOut
  /\ pc = "call"
  /\ rng = 1
  /\ loop = NoLoop
  /\ stack = << >>
  /\ prev = NoOut
  /\ app = NoApp

\* sierpinski.py:104-128, the call up to the start of the loop
ChaosGameCall ==
  /\ pc = "call"
  /\ fn = "sierpinski_chaos_game"
  /\ \E u1 \in UniformDraws, u2 \in UniformDraws :
       loop' = ChaosStartAt(args.size, args.iterations, Green, FALSE, u1, u2)
  /\ out' = [ops |-> << >>, method |-> "chaos", points |-> 0, plotted |-> 0,
             first |-> -1, last |-> << >>]
  /\ pc' = "chaos"
  /\ UNCHANGED <<app, prev, fn, args, rng, stack>>

\* sierpinski.py:131-149, one iteration of the loop; random.choice may
\* return any of the three vertices
ChaosChoice ==
  /\ pc = "chaos"
  /\ fn = "sierpinski_chaos_game"
  /\ loop.i < loop.n
  /\ \E index \in 1..3 : loop' = ChaosMove(args.size, loop, index)
  /\ UNCHANGED <<app, prev, fn, args, out, pc, rng, stack>>

NextChaosGame == ChaosGameCall \/ ChaosChoice \/ ChaosEnd

SpecChaosGame == InitChaosGame /\ [][NextChaosGame]_vars

\* (b - a) x (p - a)
Cross(a, b, p) == (b[1] - a[1]) * (p[2] - a[2]) - (b[2] - a[2]) * (p[1] - a[1])

\* p is inside or on the triangle v[1], v[2], v[3]
InTriangle(p, v) ==
  \/ Cross(v[1], v[2], p) >= 0 /\ Cross(v[2], v[3], p) >= 0 /\ Cross(v[3], v[1], p) >= 0
  \/ Cross(v[1], v[2], p) <= 0 /\ Cross(v[2], v[3], p) <= 0 /\ Cross(v[3], v[1], p) <= 0

\* C14: every point that sierpinski_chaos_game plots lies inside or on the
\* triangle of its three vertices, for every start point and every sequence
\* of vertices that module random may give.
C14_PlottedInTriangle ==
  (pc = "chaos" /\ fn = "sierpinski_chaos_game" /\ loop.last # << >>) =>
    InTriangle(<<Px(loop.last[1]), Px(loop.last[2])>>, loop.vertices)

\* the point that the loop has just generated rounds to a pixel of the raster
CurrentInRaster ==
  /\ 0 <= PyRound(loop.current_point[1]) /\ PyRound(loop.current_point[1]) < args.size[1]
  /\ 0 <= PyRound(loop.current_point[2]) /\ PyRound(loop.current_point[2]) < args.size[2]

\* C24: sierpinski_chaos_game discards exactly the first 20 generated points
\* and plots every later point that falls inside the raster: nothing is
\* plotted while at most 20 points are generated, the 21st generated point
\* is plotted when it falls inside the raster, and after i points at most
\* i - 20 are plotted.
C24_TwentyDiscarded ==
  (fn = "sierpinski_chaos_game" /\ pc = "chaos") =>
    /\ loop.i <= 20 => loop.plotted = 0
    /\ (loop.i = 21 /\ CurrentInRaster) => loop.plotted = 1
    /\ loop.plotted <= Max(0, loop.i - 20)

-----------------------------------------------------------------------------
(* draw_triangle called on a raster of 8 x 6                               *)

TriangleRaster == <<8, 6>>

\* vertices in fixed-point units: whole pixels inside, on the edge of and
\* outside the raster, and points that round to the same pixel
TriangleVertices ==
  { <<Px(0), Px(0)>>, <<Px(4), Px(3)>>, <<Px(8), Px(6)>>, <<Px(8), Px(0)>>,
    <<Px(2), Px(5)>>, <<Px(4), Px(3) + 30>>, <<Px(9), Px(3)>>, <<Px(-1), Px(2)>> }

TriangleInputs ==
  { [size |-> TriangleRaster, p1 |-> a, p2 |-> b, p3 |-> c, filled |-> f, fails |-> e] :
      a \in TriangleVertices, b \in TriangleVertices, c \in TriangleVertices,
      f \in BOOLEAN, e \in BOOLEAN }

InitTriangle ==
  /\ fn = "draw_triangle"
  /\ args \in TriangleInputs
  /\ out = NoOut
  /\ pc = "call"
  /\ rng = 1
  /\ loop = NoLoop
  /\ stack = << >>
  /\ prev = NoOut
  /\ app = NoApp

\* sierpinski.py:6-43; pygame.error raised by the primitive is caught
DrawTriangleCall ==
  /\ pc = "call"
  /\ fn = "draw_triangle"
  /\ out' = [ops |-> << draw_triangle(args.size, args.p1, args.p2, args.p3, White,
                                       args.filled, 1, args.fails) >>,
             raised |-> FALSE]
  /\ pc' = "done"
  /\ UNCHANGED <<app, prev, fn, args, rng, loop, stack>>

NextTriangle == DrawTriangleCall

SpecTriangle == InitTriangle /\ [][NextTriangle]_vars

\* C18: draw_triangle gives a triangle to pygame.draw.polygon only if its
\* three vertices, rounded to whole pixels, all lie in [0,width] x [0,height],
\* are pairwise distinct and are not on one line; otherwise the triangle is
\* dropped, and no exception reaches the caller in any case.
C18_DrawnOnlyIfProper ==
  (pc = "done" /\ fn = "draw_triangle") =>
    /\ ~out.raised
    /\ out.ops[1].passed <=>
         /\ \A i \in 1..3 : InRaster(out.ops[1].points[i], args.size)
         /\ Cardinality({out.ops[1].points[1], out.ops[1].points[2], out.ops[1].points[3]}) = 3
         /\ Cross(out.ops[1].points[1], out.ops[1].points[2], out.ops[1].points[3]) # 0

-----------------------------------------------------------------------------
(* sierpinski_carpet                                                       *)

Magenta == <<255, 0, 255>>

\* sierpinski.py:186, the test of the loop with no cell left out
CarpetSkips_none(i, j) == FALSE

\* sierpinski.py:186, the cell that the loop leaves out
CarpetSkips(i, j) == i = 1 /\ j = 1

\* sierpinski.py:174-176: the square given to pygame.draw.rect, with the
\* arguments of the call that drew it and the cells <<i, j>> that led to it
CarpetLeaf(x, y, size, color, path) ==
  [x |-> x, y |-> y, size |-> size, color |-> color, path |-> path,
   rect |-> [left |-> PyRound(x), top |-> PyRound(y),
             width |-> Max(1, PyRound(size)), height |-> Max(1, PyRound(size))]]

\* sierpinski.py:154-191.  Returns the squares filled, in order.  The loops
\* over i and j are the cells k = 3 * i + j from k on.
RECURSIVE sierpinski_carpet(_, _, _, _, _, _)
RECURSIVE CarpetLoop(_, _, _, _, _, _, _)
CarpetLoop(x, y, size, depth, color, path, k) ==
  IF k > 8 THEN << >>
  ELSE LET i == k \div 3
           j == k % 3
           sub_size == RoundDiv(size, 3)
       IN  (IF CarpetSkips(i, j) THEN << >>
            ELSE sierpinski_carpet(x + i * sub_size, y + j * sub_size, sub_size,
                                   depth - 1, color, Append(path, <<i, j>>)))
           \o CarpetLoop(x, y, size, depth, color, path, k + 1)

sierpinski_carpet(x, y, size, depth, color, path) ==
  IF size < Px(2) THEN << >>
  ELSE IF depth = 0 THEN << CarpetLeaf(x, y, size, color, path) >>
  ELSE CarpetLoop(x, y, size, depth, color, path, 0)

\* largest depth of the carpets
CarpetMaxDepth == 3

\* sides in pixels: powers of 3 times 1, 2 and 3, and sides that 3 does not
\* divide; corners in pixels
CarpetInputs ==
  { [x |-> Px(x), y |-> Px(y), size |-> Px(sz), depth |-> d] :
      x \in {0, 10}, y \in {0, 7}, sz \in {81, 54, 27, 18, 100, 20, 8, 1},
      d \in 0..CarpetMaxDepth }

InitCarpet ==
  /\ fn = "sierpinski_carpet"
  /\ args \in CarpetInputs
  /\ out = NoOut
  /\ pc = "call"
  /\ rng = 1
  /\ loop = NoLoop
  /\ stack = << >>
  /\ prev = NoOut
  /\ app = NoApp

CarpetCall ==
  /\ pc = "call"
  /\ fn = "sierpinski_carpet"
  /\ out' = [rects |-> sierpinski_carpet(args.x, args.y, args.size, args.depth, Magenta, << >>)]
  /\ pc' = "done"
  /\ UNCHANGED <<app, prev, fn, args, rng, loop, stack>>

NextCarpet == CarpetCall

SpecCarpet == InitCarpet /\ [][NextCarpet]_vars

\* the call is over and the side is at least 2 * 3^depth pixels
CarpetDone ==
  /\ pc = "done"
  /\ fn = "sierpinski_carpet"
  /\ args.size >= Px(2) * Pow(3, args.depth)

\* no square filled is, at any level, the centre of its 3 x 3 subdivision
NoCentreFilled ==
  \A k \in 1..Len(out.rects) :
    \A l \in 1..Len(out.rects[k].path) : out.rects[k].path[l] # <<1, 1>>

\* depth 2 on the 81 x 81 square: 64 squares of side 9
Carpet81 ==
  (args.size = Px(81) /\ args.depth = 2) =>
    /\ Len(out.rects) = 64
    /\ \A k \in 1..Len(out.rects) :
         out.rects[k].rect.width = 9 /\ out.rects[k].rect.height = 9

-----------------------------------------------------------------------------
(* math.sin and math.cos on whole degrees, scaled by 10000                 *)

SinTable ==
  << 0, 175, 349, 523, 698, 872, 1045, 1219, 1392, 1564, 1736, 1908, 2079,
     2250, 2419, 2588, 2756, 2924, 3090, 3256, 3420, 3584, 3746, 3907, 4067, 4226,
     4384, 4540, 4695, 4848, 5000, 5150, 5299, 5446, 5592, 5736, 5878, 6018, 6157,
     6293, 6428, 6561, 6691, 6820, 6947, 7071, 7193, 7314, 7431, 7547, 7660, 7771,
     7880, 7986, 8090, 8192, 8290, 8387, 8480, 8572, 8660, 8746, 8829, 8910, 8988,
     9063, 9135, 9205, 9272, 9336, 9397, 9455, 9511, 9563, 9613, 9659, 9703, 9744,
     9781, 9816, 9848, 9877, 9903, 9925, 9945, 9962, 9976, 9986, 9994, 9998, 10000 >>

Sin(deg) ==
  LET a == deg % 360
  IN  IF a <= 90 THEN SinTable[a + 1]
      ELSE IF a <= 180 THEN SinTable[181 - a]
      ELSE IF a <= 270 THEN -SinTable[a - 179]
      ELSE -SinTable[361 - a]

Cos(deg) == Sin(deg + 90)

-----------------------------------------------------------------------------
(* fractals/arbol.py                                                       *)
(* Angles are whole degrees, factors are per mille, min_length is in       *)
(* tenths of a pixel.  A recursion is run one call at a time: stack holds  *)
(* the calls still to be made, in the order in which the code makes them.  *)

\* arbol.py:6-68; droop_factor 1000 where the dictionary has no such key
TreeParameters ==
  [CLASSIC    |-> [angle_left |-> 25, angle_right |-> 25, length_factor |-> 700,
                   thickness_factor |-> 800, branches |-> 2, droop_factor |-> 1000,
                   min_length |-> 30],
   ASYMMETRIC |-> [angle_left |-> 30, angle_right |-> 20, length_factor |-> 750,
                   thickness_factor |-> 900, branches |-> 2, droop_factor |-> 1000,
                   min_length |-> 25],
   BUSHY      |-> [angle_left |-> 20, angle_right |-> 20, length_factor |-> 600,
                   thickness_factor |-> 700, branches |-> 3, droop_factor |-> 1000,
                   min_length |-> 20],
   WILLOW     |-> [angle_left |-> 15, angle_right |-> 15, length_factor |-> 800,
                   thickness_factor |-> 900, branches |-> 2, droop_factor |-> 1500,
                   min_length |-> 40],
   OAK        |-> [angle_left |-> 35, angle_right |-> 35, length_factor |-> 650,
                   thickness_factor |-> 1200, branches |-> 2, droop_factor |-> 1000,
                   min_length |-> 35],
   PINE       |-> [angle_left |-> 15, angle_right |-> 15, length_factor |-> 800,
                   thickness_factor |-> 600, branches |-> 2, droop_factor |-> 1000,
                   min_length |-> 20]]

\* a call of one of the tree functions that has not started yet (phase
\* "enter"), or the rest of a call of draw_tree_stochastic (phases "left",
\* "right" and "center": x, y, angle and length are then those of the children)
Frame(fnc, phase, x, y, angle, depth, length, level, plen, pdepth, made) ==
  [fnc |-> fnc, phase |-> phase, x |-> x, y |-> y, angle |-> angle,
   depth |-> depth, length |-> length, level |-> level,
   plen |-> plen, pdepth |-> pdepth, made |-> made]

\* arbol.py:93-95
Endpoint(x, y, angle, length) ==
  <<x + RoundDiv(Cos(angle) * length, 10000), y - RoundDiv(Sin(angle) * length, 10000)>>

LineOp(start_pos, end_pos, color, width, fails) ==
  [op |-> "line", start_pos |-> start_pos, end_pos |-> end_pos,
   color |-> color, width |-> width, passed |-> TRUE, drawn |-> ~fails]

\* arbol.py:173-255
get_branch_color(depth, length, color_mode) ==
  IF color_mode = "gradient"
  THEN LET brown_intensity == Min(1000, RoundDiv(depth * 1000, 12) + RoundDiv(length * 3, S))
           green_intensity == 700 + RoundDiv(300 * (12 - depth), 12)
       IN  IF depth * 10 > 72 \/ length > Px(50)
           THEN <<(139 * brown_intensity) \div 1000, (69 * brown_intensity) \div 1000,
                  (19 * brown_intensity) \div 1000>>
           ELSE IF depth * 10 > 36 THEN <<101, 67, 33>>
           ELSE <<(34 * green_intensity) \div 1000, (139 * green_intensity) \div 1000,
                  (34 * green_intensity) \div 1000>>
  ELSE IF color_mode = "seasonal_spring"
  THEN IF depth > 4 THEN <<101, 67, 33>>
       ELSE << <<124, 252, 0>>, <<50, 205, 50>>, <<0, 255, 127>> >>[(depth % 3) + 1]
  ELSE IF color_mode = "seasonal_autumn"
  THEN IF depth > 4 THEN <<139, 69, 19>>
       ELSE << <<255, 140, 0>>, <<255, 69, 0>>, <<255, 215, 0>>,
               <<220, 20, 60>>, <<255, 165, 0>>, <<178, 34, 34>> >>
              [((depth + length \div S) % 6) + 1]
  ELSE IF color_mode = "seasonal_winter"
  THEN IF depth > 3 THEN <<101, 67, 33>>
       ELSE <<100 + depth * 20, 100 + depth * 20, 100 + depth * 20>>
  ELSE IF color_mode = "neon"
  THEN << <<0, 255, 255>>, <<255, 0, 255>>, <<255, 255, 0>>,
          <<0, 255, 0>>, <<255, 0, 127>>, <<127, 255, 0>> >>[(depth % 6) + 1]
  ELSE IF color_mode = "fire"
  THEN << <<255, 0, 0>>, <<255, 69, 0>>, <<255, 140, 0>>,
          <<255, 215, 0>>, <<255, 255, 0>> >>[Min(depth, 4) + 1]
  ELSE Green

\* RecursiveChildren with the depth passed on unchanged (depth instead of
\* depth - 1 in arbol.py:144-171)
RecursiveChildren_same_depth(f, x2, y2, params) ==
  LET branch_count == params.branches
      new_length == RoundDiv(f.length * params.length_factor, 1000)
      angle_spread == 50 + (branch_count - 2) * 10
      Child(angle, length) ==
        Frame("recursive", "enter", x2, y2, angle, f.depth, length,
              f.level + 1, f.length, f.depth, 0)
  IN  IF branch_count = 2
      THEN << Child(f.angle + params.angle_left, new_length),
              Child(f.angle - params.angle_right, new_length) >>
      ELSE IF branch_count = 1
      THEN << Child(f.angle, new_length) >>
      ELSE IF branch_count <= 0 THEN << >>
      ELSE [i \in 1..branch_count |->
              LET twice == 2 * (i - 1) - (branch_count - 1)
                  length_variation == 900 + RoundDiv(200 * Abs(twice), 2 * (branch_count - 1))
              IN  Child(f.angle + RoundDiv(angle_spread * twice, 2 * (branch_count - 1)),
                        RoundDiv(new_length * length_variation, 1000))]

\* arbol.py:126-171, the recursive calls of a branch that ends at <<x2, y2>>
RecursiveChildren(f, x2, y2, params) ==
  LET branch_count == params.branches
      new_length == RoundDiv(f.length * params.length_factor, 1000)
      angle_modifier == IF params.droop_factor > 1000 /\ f.depth < 4
                        THEN RoundDiv((4 - f.depth) * 5 * (params.droop_factor - 1000), 1000)
                        ELSE 0
      angle_spread == 50 + (branch_count - 2) * 10
      Child(angle, length) ==
        Frame("recursive", "enter", x2, y2, angle, f.depth - 1, length,
              f.level + 1, f.length, f.depth, 0)
  IN  IF branch_count = 2
      THEN << Child(f.angle + params.angle_left - angle_modifier, new_length),
              Child(f.angle - params.angle_right - angle_modifier, new_length) >>
      ELSE IF branch_count = 1
      THEN << Child(f.angle, new_length) >>
      ELSE IF branch_count <= 0 THEN << >>
      ELSE [i \in 1..branch_count |->
              LET twice == 2 * (i - 1) - (branch_count - 1)   \* position_factor * 2 * (branch_count - 1)
                  length_variation == 900 + RoundDiv(200 * Abs(twice), 2 * (branch_count - 1))
              IN  Child(f.angle + RoundDiv(angle_spread * twice, 2 * (branch_count - 1)),
                        RoundDiv(new_length * length_variation, 1000))]

\* arbol.py:84-171, one call of draw_tree_recursive up to its recursive calls.
\* draws: calls of pygame.draw.line made so far; failAt: the call of
\* pygame.draw.line that raises pygame.error (0: none).
RecursiveCall(f, env, size, draws, failAt) ==
  LET params == env.params
      floor == Max(RoundDiv(Px(params.min_length), 10), env.min_branch_size)
      terminal == f.depth <= 0 \/ f.length < floor
      e == Endpoint(f.x, f.y, f.angle, f.length)
      thickness == Max(1, (f.depth * params.thickness_factor * 20 * S + f.length * 1000)
                          \div (20000 * S))
      color == get_branch_color(f.depth, f.length, env.color_mode)
      start_pos == <<PyRound(f.x), PyRound(f.y)>>
      end_pos == <<PyRound(e[1]), PyRound(e[2])>>
      valid == InRaster(start_pos, size) /\ InRaster(end_pos, size)
      fails1 == draws + 1 = failAt
      texture == thickness > 3 /\ f.depth > 5
      fails2 == draws + 2 = failAt
      darker == <<Max(0, color[1] - 30), Max(0, color[2] - 30), Max(0, color[3] - 30)>>
      lines == IF ~valid THEN << >>
               ELSE IF fails1 THEN << LineOp(start_pos, end_pos, color, thickness, TRUE) >>
               ELSE IF texture
               THEN << LineOp(start_pos, end_pos, color, thickness, FALSE),
                       LineOp(start_pos, end_pos, darker, Max(1, thickness - 2), fails2) >>
               ELSE << LineOp(start_pos, end_pos, color, thickness, FALSE) >>
      raised == valid /\ (fails1 \/ (texture /\ fails2))
  IN  IF terminal
      THEN [terminal |-> TRUE, start_pos |-> start_pos, end_pos |-> start_pos,
            lines |-> << >>, skipped |-> "no", children |-> << >>, branches |-> 0]
      ELSE [terminal |-> FALSE, start_pos |-> start_pos, end_pos |-> end_pos,
            lines |-> lines,
            skipped |-> IF ~valid THEN "range" ELSE IF raised THEN "error" ELSE "no",
            children |-> IF raised THEN << >> ELSE RecursiveChildren(f, e[1], e[2], params),
            branches |-> Len(RecursiveChildren(f, e[1], e[2], params))]

\* arbol.py:346-411, one call of draw_tree_wind up to its recursive calls
WindCall(f, env, size, draws, failAt) ==
  LET terminal == f.depth <= 0 \/ f.length < Px(2)
      wind_sensitivity == Max(100, 1000 - RoundDiv(f.depth * 1000, 12))
      \* time_factor * 0.01 + depth * 0.5 radians, in degrees
      phase == RoundDiv((env.time_factor + 50 * f.depth) * 5730, 10000)
      wind_oscillation == RoundDiv(Sin(phase), 20) + 500
      wind_factor == RoundDiv(env.wind_strength * wind_sensitivity, 1000)
      \* wind_effect in thousandths of a degree
      wind_effect == RoundDiv(wind_factor * wind_oscillation, 1000) * 25
      wind_angle == f.angle + RoundDiv(RoundDiv(wind_effect * Cos(env.wind_direction - f.angle),
                                                10000), 1000)
      e == Endpoint(f.x, f.y, wind_angle, f.length)
      thickness == Max(1, (f.depth * 8) \div 10)
      wind_lightness == (wind_factor * 40) \div 1000
      color == IF f.depth > 4 THEN <<139, 69, 19>>
               ELSE <<Min(255, 34 + wind_lightness), Min(255, 139 + wind_lightness), 34>>
      start_pos == <<PyRound(f.x), PyRound(f.y)>>
      end_pos == <<PyRound(e[1]), PyRound(e[2])>>
      fails == draws + 1 = failAt
      new_length == RoundDiv(f.length * 72, 100)
      base_angle == 25 + RoundDiv(env.wind_strength * 15, 1000)
      Child(angle) ==
        Frame("wind", "enter", e[1], e[2], angle, f.depth - 1, new_length,
              f.level + 1, f.length, f.depth, 0)
  IN  IF terminal
      THEN [terminal |-> TRUE, start_pos |-> start_pos, end_pos |-> start_pos,
            lines |-> << >>, skipped |-> "no", children |-> << >>, branches |-> 0]
      ELSE [terminal |-> FALSE, start_pos |-> start_pos, end_pos |-> end_pos,
            lines |-> << LineOp(start_pos, end_pos, color, thickness, fails) >>,
            skipped |-> IF fails THEN "error" ELSE "no",
            children |-> IF fails THEN << >>
                         ELSE << Child(wind_angle + base_angle), Child(wind_angle - base_angle) >>,
            branches |-> 2]

\* random.seed(n)
SeedState(n) == (n * 7919 + 12345) % 65536

\* random.random() < p, p per mille
RngBelow(s, p) == ((s \div 64) * 1000) \div 1024 < p

\* the generator after the first statement of a call that never seeds it
Reseed_never(seed, depth, s0) == s0

\* arbol.py:270-271: the generator after the first statement of the call; a
\* seed of None is written -1
Reseed(seed, depth, s0) == IF seed >= 0 THEN SeedState(seed + depth * 100) ELSE s0

\* arbol.py:270-317, one call of draw_tree_stochastic up to its first
\* branching decision; s0 is the state of the generator at the call
StochasticCall(f, env, size, draws, failAt, s0) ==
  LET s == Reseed(env.seed, f.depth, s0)
      terminal == f.depth <= 0 \/ f.length < Px(2)
      s1 == RngNext(s)
      s2 == RngNext(s1)
      s3 == RngNext(s2)
      s4 == RngNext(s3)
      s5 == RngNext(s4)
      r == env.randomness
      angle_variation == RoundDiv(RngUniform(-r * 20, r * 20, s1), 1000)
      length_variation == RngUniform(1000 - RoundDiv(r * 4, 10), 1000 + RoundDiv(r * 3, 10), s2)
      actual_angle == f.angle + angle_variation
      actual_length == RoundDiv(f.length * length_variation, 1000)
      e == Endpoint(f.x, f.y, actual_angle, actual_length)
      color == IF f.depth > 4
               THEN << <<139, 69, 19>>, <<101, 67, 33>>, <<160, 82, 45>>,
                       <<120, 60, 30>>, <<150, 75, 40>> >>[RngIndex(s3, 5)]
               ELSE << <<34, 139, 34>>, <<0, 128, 0>>, <<50, 205, 50>>,
                       <<0, 100, 0>>, <<60, 179, 113>>, <<46, 139, 87>> >>[RngIndex(s3, 6)]
      base_thickness == Max(1, (f.depth * 9) \div 10)
      thickness == Max(1, Min(base_thickness + RngIndex(s4, 3) - 2, 8))
      start_pos == <<PyRound(f.x), PyRound(f.y)>>
      end_pos == <<PyRound(e[1]), PyRound(e[2])>>
      fails == draws + 1 = failAt
      new_length == RoundDiv(actual_length * RngUniform(600, 800, s5), 1000)
  IN  IF terminal
      THEN [terminal |-> TRUE, start_pos |-> start_pos, end_pos |-> start_pos,
            lines |-> << >>, skipped |-> "no", children |-> << >>, branches |-> 0,
            rng |-> s]
      ELSE [terminal |-> FALSE, start_pos |-> start_pos, end_pos |-> end_pos,
            lines |-> << LineOp(start_pos, end_pos, color, thickness, fails) >>,
            skipped |-> IF fails THEN "error" ELSE "no",
            children |-> IF fails THEN << >>
                         ELSE << Frame("stochastic", "left", e[1], e[2], actual_angle,
                                       f.depth, new_length, f.level, f.length, f.depth, 0) >>,
            branches |-> 0,
            rng |-> IF fails THEN s4 ELSE s5]

\* arbol.py:320-344, one branching decision of draw_tree_stochastic: the
\* frames that replace the continuation f, and the generator afterwards
StochasticBranch(f, env, s0) ==
  LET s1 == RngNext(s0)
      s2 == RngNext(s1)
      branch_probability == Min(900, 500 + f.depth * 100)
      max_branches == IF f.depth > 6 THEN 3 ELSE 2
      Child(angle, length) ==
        Frame("stochastic", "enter", f.x, f.y, angle, f.depth - 1, length,
              f.level + 1, f.plen, f.depth, 0)
      Rest(phase, made) == [f EXCEPT !.phase = phase, !.made = made]
  IN  IF f.phase = "left"
      THEN IF RngBelow(s1, branch_probability)
           THEN [frames |-> << Child(f.angle + RoundDiv(RngUniform(15000, 40000, s2), 1000),
                                     f.length),
                               Rest("right", f.made + 1) >>,
                 rng |-> s2]
           ELSE [frames |-> << Rest("right", f.made) >>, rng |-> s1]
      ELSE IF f.phase = "right"
      THEN IF RngBelow(s1, branch_probability)
           THEN [frames |-> << Child(f.angle - RoundDiv(RngUniform(15000, 40000, s2), 1000),
                                     f.length),
                               Rest("center", f.made + 1) >>,
                 rng |-> s2]
           ELSE [frames |-> << Rest("center", f.made) >>, rng |-> s1]
      ELSE IF f.depth > 2 /\ f.made < max_branches
      THEN IF RngBelow(s1, 300)
           THEN [frames |-> << Child(f.angle + RoundDiv(RngUniform(-10000, 10000, s2), 1000),
                                     RoundDiv(f.length * 9, 10)) >>,
                 rng |-> s2]
           ELSE [frames |-> << >>, rng |-> s1]
      ELSE [frames |-> << >>, rng |-> s0]

\* a number that stands for one drawing operation in the digest of a render
OpHash(o) ==
  (o.start_pos[1] * 3 + o.start_pos[2] * 5 + o.end_pos[1] * 7 + o.end_pos[2] * 11
   + o.width * 13 + o.color[1] + o.color[2] * 2 + o.color[3] * 4
   + (IF o.drawn THEN 1 ELSE 0)) % 65521

RECURSIVE Digest(_, _)
Digest(d, ops) ==
  IF ops = << >> THEN d
  ELSE Digest((d * 31 + OpHash(Head(ops)) + 1) % 65521, Tail(ops))

NoCall == [none |-> TRUE]

\* the record of a render by one of the tree functions: operations other than
\* lines, calls made, lines passed to pygame.draw.line and drawn by it, a
\* digest of the lines in order, and the last call made
TreeOut(ops) ==
  [ops |-> ops, calls |-> 0, lines |-> 0, drawn |-> 0, digest |-> 0, last |-> NoCall]

\* what a call adds to the record of the render
Emit(o, f, r) ==
  [o EXCEPT !.calls = o.calls + 1,
            !.lines = o.lines + Len(r.lines),
            !.drawn = o.drawn + Len(SelectSeq(r.lines, LAMBDA l : l.drawn)),
            !.digest = Digest(o.digest, r.lines),
            !.last = [fnc |-> f.fnc, level |-> f.level, depth |-> f.depth,
                      length |-> f.length, plen |-> f.plen, pdepth |-> f.pdepth,
                      terminal |-> r.terminal, lines |-> r.lines,
                      start_pos |-> r.start_pos, end_pos |-> r.end_pos,
                      skipped |-> r.skipped, children |-> Len(r.children),
                      branches |-> r.branches]]

\* the arguments that every call of a recursion passes on unchanged
TreeEnv(params, color_mode, min_branch_size, wind_strength, wind_direction, time_factor, randomness, seed) ==
  [params |-> params, color_mode |-> color_mode, min_branch_size |-> min_branch_size,
   wind_strength |-> wind_strength, wind_direction |-> wind_direction,
   time_factor |-> time_factor, randomness |-> randomness, seed |-> seed]

\* a direct call of draw_tree_recursive, draw_tree_wind or draw_tree_stochastic
TreeCall ==
  /\ pc = "call"
  /\ fn \in {"draw_tree_recursive", "draw_tree_wind", "draw_tree_stochastic"}
  /\ loop' = TreeEnv(args.params, args.color_mode, args.min_branch_size,
                     args.wind_strength, args.wind_direction, args.time_factor,
                     args.randomness, args.seed)
  /\ stack' = << Frame(IF fn = "draw_tree_recursive" THEN "recursive"
                       ELSE IF fn = "draw_tree_wind" THEN "wind" ELSE "stochastic",
                       "enter", args.x, args.y, args.angle, args.depth, args.length,
                       0, args.length, args.depth, 0) >>
  /\ out' = TreeOut(<< >>)
  /\ pc' = "tree"
  /\ UNCHANGED <<app, prev, fn, args, rng>>

\* a draw that leaves the plain recursion where its note on the number of
\* branches starts
TreeVariant_at_note(iterations) == IF iterations <= 10 THEN "recursive" ELSE "stochastic"

\* arbol.py:461-488: the function that arbol.draw calls
TreeVariant(iterations) == IF iterations <= 12 THEN "recursive" ELSE "stochastic"

\* arbol.py:435-488, draw up to the call of the tree function it selects
ArbolDrawCall ==
  /\ pc = "call"
  /\ fn = "arbol.draw"
  /\ LET width == args.size[1]
         height == args.size[2]
         iterations == args.iterations
         start_x == RoundDiv(Px(width), 2)
         start_y == RoundDiv(Px(height) * 9, 10)
         initial_length == Max(Px(20), RoundDiv(Px(Min(width, height)) * 15, 100))
         min_branch_size == Max(Px(1), RoundDiv(Px(Min(width, height)), 400))
         Env(params, color_mode) ==
           TreeEnv(params, color_mode, min_branch_size, 0, 0, 0, 250, 42)
         Root(fnc, depth) ==
           Frame(fnc, "enter", start_x, start_y, 90, depth, initial_length,
                 0, initial_length, depth, 0)
     IN  /\ loop' = IF iterations <= 2 THEN Env(TreeParameters.CLASSIC, "default")
                    ELSE IF iterations <= 5 THEN Env(TreeParameters.CLASSIC, "gradient")
                    ELSE IF iterations <= 8 THEN Env(TreeParameters.BUSHY, "seasonal_spring")
                    ELSE Env(TreeParameters.OAK, "seasonal_autumn")
         /\ stack' = IF TreeVariant(iterations) = "recursive"
                     THEN << Root("recursive", iterations) >>
                     ELSE << Root("stochastic", Min(iterations, 15)) >>
  /\ out' = TreeOut(<< FillOp >>)
  /\ pc' = "tree"
  /\ UNCHANGED <<app, prev, fn, args, rng>>

\* one call of draw_tree_recursive
TreeRecursiveStep ==
  /\ pc = "tree"
  /\ stack # << >>
  /\ Head(stack).fnc = "recursive"
  /\ LET r == RecursiveCall(Head(stack), loop, args.size, out.lines, args.failAt)
     IN  /\ stack' = r.children \o Tail(stack)
         /\ out' = Emit(out, Head(stack), r)
  /\ UNCHANGED <<app, prev, fn, args, pc, rng, loop>>

\* one call of draw_tree_wind
TreeWindStep ==
  /\ pc = "tree"
  /\ stack # << >>
  /\ Head(stack).fnc = "wind"
  /\ LET r == WindCall(Head(stack), loop, args.size, out.lines, args.failAt)
     IN  /\ stack' = r.children \o Tail(stack)
         /\ out' = Emit(out, Head(stack), r)
  /\ UNCHANGED <<app, prev, fn, args, pc, rng, loop>>

\* one call of draw_tree_stochastic, up to its first branching decision
TreeStochasticEnter ==
  /\ pc = "tree"
  /\ stack # << >>
  /\ Head(stack).fnc = "stochastic"
  /\ Head(stack).phase = "enter"
  /\ LET r == StochasticCall(Head(stack), loop, args.size, out.lines, args.failAt, rng)
     IN  /\ stack' = r.children \o Tail(stack)
         /\ out' = Emit(out, Head(stack), r)
         /\ rng' = r.rng
  /\ UNCHANGED <<app, prev, fn, args, pc, loop>>

\* one branching decision of draw_tree_stochastic
TreeStochasticBranch ==
  /\ pc = "tree"
  /\ stack # << >>
  /\ Head(stack).fnc = "stochastic"
  /\ Head(stack).phase # "enter"
  /\ LET b == StochasticBranch(Head(stack), loop, rng)
     IN  /\ stack' = b.frames \o Tail(stack)
         /\ rng' = b.rng
  /\ UNCHANGED <<app, prev, fn, args, out, pc, loop>>

\* arbol.py:490-499, the note blitted by draw for high iteration counts
ArbolNote(iterations) ==
  IF iterations > 10 THEN << TextOp(Warning) >> ELSE << >>

\* the outermost call has returned
TreeReturn ==
  /\ pc = "tree"
  /\ stack = << >>
  /\ out' = [out EXCEPT !.ops = out.ops \o (IF fn = "arbol.draw"
                                           THEN ArbolNote(args.iterations) ELSE << >>)]
  /\ loop' = NoLoop
  /\ pc' = "done"
  /\ UNCHANGED <<app, prev, fn, args, rng, stack>>

-----------------------------------------------------------------------------
(* The tree functions called on a fresh raster                             *)

\* largest depth of the calls enumerated one by one
MaxTreeDepth == 4

\* a depth that the length floor, not the depth, cuts short
DeepTree == 40

TreeSizes == { <<300, 300>>, <<100, 80>> }

\* a parameter set outside TreeParameters: a single branch that shrinks slowly
SingleBranch ==
  [angle_left |-> 10, angle_right |-> 10, length_factor |-> 950,
   thickness_factor |-> 800, branches |-> 1, droop_factor |-> 1000, min_length |-> 10]

TreeParameterSets ==
  { TreeParameters.CLASSIC, TreeParameters.ASYMMETRIC, TreeParameters.BUSHY,
    TreeParameters.WILLOW, TreeParameters.OAK, TreeParameters.PINE, SingleBranch }

\* the call of pygame.draw.line that raises pygame.error (0: none)
TreeFailures == {0, 1, 2}

TreeArgs(sz, depth, length, params, color_mode, ws, tf, seed, f) ==
  [size |-> sz, x |-> RoundDiv(Px(sz[1]), 2), y |-> RoundDiv(Px(sz[2]) * 9, 10),
   angle |-> 90, depth |-> depth, length |-> length, params |-> params,
   color_mode |-> color_mode, min_branch_size |-> Px(1),
   wind_strength |-> ws, wind_direction |-> 45, time_factor |-> tf,
   randomness |-> 250, seed |-> seed, failAt |-> f]

RecursiveInputs ==
  { TreeArgs(sz, d, Px(l), p, "gradient", 0, 0, -1, f) :
      sz \in TreeSizes, d \in (-1)..MaxTreeDepth, l \in {20, 50}, p \in TreeParameterSets,
      f \in TreeFailures }
  \cup { TreeArgs(<<300, 300>>, DeepTree, Px(20), p, "seasonal_autumn", 0, 0, -1, f) :
           p \in TreeParameterSets, f \in {0, 3} }

WindInputs ==
  { TreeArgs(sz, d, Px(l), TreeParameters.CLASSIC, "default", ws, tf, -1, f) :
      sz \in TreeSizes, d \in 0..MaxTreeDepth, l \in {20, 50}, ws \in {0, 300},
      tf \in {0, 1000}, f \in {0, 2} }

StochasticInputs ==
  { TreeArgs(sz, d, Px(l), TreeParameters.CLASSIC, "default", 0, 0, seed, f) :
      sz \in TreeSizes, d \in 0..MaxTreeDepth, l \in {20, 50}, seed \in {-1, 42},
      f \in {0, 2} }

ArbolInputs ==
  { [size |-> <<300, 300>>, iterations |-> i, failAt |-> 0] : i \in (-1)..16 }

InitTree ==
  /\ \/ fn = "draw_tree_recursive" /\ args \in RecursiveInputs
     \/ fn = "draw_tree_wind" /\ args \in WindInputs
     \/ fn = "draw_tree_stochastic" /\ args \in StochasticInputs
     \/ fn = "arbol.draw" /\ args \in ArbolInputs
  /\ out = NoOut
  /\ pc = "call"
  /\ rng \in {1, 40503}
  /\ loop = NoLoop
  /\ stack = << >>
  /\ prev = NoOut
  /\ app = NoApp

NextTree ==
  \/ TreeCall
  \/ ArbolDrawCall
  \/ TreeRecursiveStep
  \/ TreeWindStep
  \/ TreeStochasticEnter
  \/ TreeStochasticBranch
  \/ TreeReturn

SpecTree == InitTree /\ [][NextTree]_vars

-----------------------------------------------------------------------------
(* draw_tree_recursive alone, run to its return                            *)

\* largest depth of the calls whose return is awaited
TerminationDepth == 3

TerminationInputs ==
  { TreeArgs(sz, d, Px(l), p, "gradient", 0, 0, -1, f) :
      sz \in TreeSizes, d \in (-1)..TerminationDepth, l \in {20, 50},
      p \in TreeParameterSets, f \in {0, 1} }
  \cup { TreeArgs(<<300, 300>>, DeepTree, Px(20), p, "seasonal_autumn", 0, 0, -1, f) :
           p \in {SingleBranch, TreeParameters.CLASSIC, TreeParameters.BUSHY},
           f \in {0, 3} }

InitRecursive ==
  /\ fn = "draw_tree_recursive"
  /\ args \in TerminationInputs
  /\ out = NoOut
  /\ pc = "call"
  /\ rng = 1
  /\ loop = NoLoop
  /\ stack = << >>
  /\ prev = NoOut
  /\ app = NoApp

NextRecursive == TreeCall \/ TreeRecursiveStep \/ TreeReturn

\* a call that has started runs on: the interpreter does not stop by itself
SpecRecursive == InitRecursive /\ [][NextRecursive]_vars /\ WF_vars(NextRecursive)

-----------------------------------------------------------------------------
(* Claims about the tree functions                                         *)

\* the number of multiplications by length_factor after which a length is
\* below the floor max(min_length, min_branch_size)
RECURSIVE StepsToFloor(_, _, _)
StepsToFloor(length, length_factor, floor) ==
  IF length < floor THEN 0
  ELSE 1 + StepsToFloor(RoundDiv(length * length_factor, 1000), length_factor, floor)

\* every pending call of draw_tree_recursive made by another call has a
\* strictly smaller length than its caller and a depth smaller by one
C3_ChildrenSmaller ==
  \A i \in 1..Len(stack) :
    (stack[i].fnc = "recursive" /\ stack[i].level > 0) =>
      /\ stack[i].length < stack[i].plen
      /\ stack[i].depth = stack[i].pdepth - 1

\* the nesting of the calls exceeds neither the depth given nor the number of
\* steps after which the length is below the floor
C3_NestingBounded ==
  fn = "draw_tree_recursive" =>
    \A i \in 1..Len(stack) :
      /\ stack[i].level <= Max(args.depth, 0)
      /\ stack[i].level <= StepsToFloor(args.length, args.params.length_factor,
                                        Max(RoundDiv(Px(args.params.min_length), 10),
                                            args.min_branch_size))

\* C3: draw_tree_recursive terminates for every input: with 0 < length_factor
\* < 1 and min_length > 0, binary or multi-branch, every child call has a
\* strictly smaller length and a depth smaller by one than its parent, and the
\* nesting of calls exceeds neither the depth given nor the number of steps
\* until the length drops below max(min_length, min_branch_size).
C3_TreeTerminates ==
  /\ [](C3_ChildrenSmaller /\ C3_NestingBounded)
  /\ <>(pc = "done")

\* a call with a depth of 40 has returned after more than 100 calls, cut
\* short by the length floor
C3_Witness ==
  /\ pc = "done"
  /\ fn = "draw_tree_recursive"
  /\ args.depth = DeepTree
  /\ args.failAt = 0
  /\ out.calls > 100

\* the tree function has made at least one call
TreeCalled == pc \in {"tree", "done"} /\ out.calls > 0

\* C7: every line segment that a branch engine passes to the line-drawing
\* primitive has both rounded endpoints inside [0,width] x [0,height]; here
\* for the segments of the last call of draw_tree_recursive,
\* draw_tree_stochastic or draw_tree_wind.
C7_SegmentsInRange ==
  TreeCalled =>
    \A i \in 1..Len(out.last.lines) :
      out.last.lines[i].passed =>
        /\ InRaster(out.last.lines[i].start_pos, args.size)
        /\ InRaster(out.last.lines[i].end_pos, args.size)

\* C8: dropping one primitive never cuts the rest of the render: when a
\* branch of draw_tree_recursive is skipped, because its endpoints are out of
\* range or because drawing it raises an error, the child branches of that
\* node are still generated.
C8_ChildrenAfterSkip ==
  (TreeCalled /\ out.last.fnc = "recursive" /\ ~out.last.terminal
     /\ out.last.skipped # "no") =>
    out.last.children = out.last.branches

-----------------------------------------------------------------------------
(* The tree that arbol.draw draws                                          *)

\* the functions of the calls made so far and of the calls waiting
TreeFunctions ==
  { stack[i].fnc : i \in 1..Len(stack) } \cup
  (IF out.last = NoCall THEN {} ELSE {out.last.fnc})

\* C20: arbol.draw calls exactly one tree function per call, chosen by
\* iterations alone: draw_tree_recursive with the CLASSIC parameters for
\* iterations <= 5, with BUSHY for 6..8 and with OAK for 9..12, and
\* draw_tree_stochastic with depth min(iterations, 15) and seed 42 for every
\* iterations > 12.
C20_OneVariant ==
  (fn = "arbol.draw" /\ pc \in {"tree", "done"}) =>
    LET iterations == args.iterations
    IN  /\ out.calls = 0 =>
              /\ Len(stack) = 1
              /\ Head(stack).level = 0
              /\ Head(stack).depth = IF iterations <= 12 THEN iterations ELSE Min(iterations, 15)
        /\ Cardinality({ i \in 1..Len(stack) : stack[i].level = 0 }) <= 1
        /\ \A i \in 1..Len(stack) :
              stack[i].level = 0 => (out.calls = 0 \/ stack[i].phase # "enter")
        /\ TreeFunctions = {IF iterations <= 12 THEN "recursive" ELSE "stochastic"}
        /\ (pc = "tree" /\ iterations <= 5) => loop.params = TreeParameters.CLASSIC
        /\ (pc = "tree" /\ 6 <= iterations /\ iterations <= 8) =>
              loop.params = TreeParameters.BUSHY
        /\ (pc = "tree" /\ 9 <= iterations /\ iterations <= 12) =>
              loop.params = TreeParameters.OAK
        /\ (pc = "tree" /\ iterations > 12) => loop.seed = 42
        /\ pc = "done" => out.calls >= 1

\* arbol.draw has returned from a stochastic tree of several segments
C20_Witness ==
  /\ fn = "arbol.draw"
  /\ pc = "done"
  /\ args.iterations = 16
  /\ out.last.fnc = "stochastic"
  /\ out.calls > 3
  /\ out.lines > 3

-----------------------------------------------------------------------------
(* draw_tree_stochastic called twice with a seed                           *)

\* states of the generator of module random before a call
RngStates == {0, 1, 40503, 65535}

SeededInputs ==
  { TreeArgs(sz, d, Px(l), TreeParameters.CLASSIC, "default", 0, 0, seed, f) :
      sz \in TreeSizes, d \in 0..MaxTreeDepth, l \in {20, 50}, seed \in {0, 42},
      f \in {0, 2} }

InitSeeded ==
  /\ fn = "draw_tree_stochastic"
  /\ args \in SeededInputs
  /\ out = NoOut
  /\ pc = "call"
  /\ rng \in RngStates
  /\ loop = NoLoop
  /\ stack = << >>
  /\ prev = NoOut
  /\ app = NoApp

\* the caller keeps what the first call drew and calls again with the same
\* arguments on a fresh raster, after any other use of module random
CallAgain ==
  /\ pc = "done"
  /\ prev = NoOut
  /\ prev' = out
  /\ out' = NoOut
  /\ pc' = "call"
  /\ rng' \in RngStates
  /\ UNCHANGED <<app, fn, args, loop, stack>>

NextSeeded ==
  \/ TreeCall
  \/ TreeStochasticEnter
  \/ TreeStochasticBranch
  \/ TreeReturn
  \/ CallAgain

SpecSeeded == InitSeeded /\ [][NextSeeded]_vars

\* C19: two calls of draw_tree_stochastic with the same seed, not None, and
\* the same other arguments give pygame.draw.line the same sequence of
\* segments (endpoints, colour, thickness), whatever the state of the
\* generator of module random before each call.
C19_SeededRepeats ==
  (pc = "done" /\ fn = "draw_tree_stochastic" /\ prev # NoOut /\ args.seed >= 0) =>
    out = prev

\* the second call is over and both calls drew a tree of several segments
C19_Witness ==
  /\ pc = "done"
  /\ fn = "draw_tree_stochastic"
  /\ prev # NoOut
  /\ args.seed = 42
  /\ args.depth = MaxTreeDepth
  /\ args.failAt = 0
  /\ out.lines > 3
  /\ out.digest = prev.digest

-----------------------------------------------------------------------------
(* fractals/mandelbrot.py and fractals/julia.py                            *)
(* A complex number is a pair <<re, im>> in units of 1/Q.                  *)

\* units per 1.0 of the complex plane
Q == 1000

Black == <<0, 0, 0>>

\* z * z + c
SquareAdd(z, c) ==
  << RoundDiv(z[1] * z[1] - z[2] * z[2], Q) + c[1],
     RoundDiv(2 * z[1] * z[2], Q) + c[2] >>

\* |z|^2 in units of 1/Q^2
Norm2(z) == z[1] * z[1] + z[2] * z[2]

\* abs(z) <= 2
AbsLe2(z) == Norm2(z) <= 4 * Q * Q

\* the pass of mandelbrot_iteration with abs(z) < 2 as its test
MandelbrotPass_strict(st, c, max_iter) ==
  IF Norm2(st.z) < 4 * Q * Q /\ st.n < max_iter
  THEN [z |-> SquareAdd(st.z, c), n |-> st.n + 1]
  ELSE st

\* mandelbrot.py:20-22 (also 207-209), one test and pass of the loop
MandelbrotPass(st, c, max_iter) ==
  IF AbsLe2(st.z) /\ st.n < max_iter
  THEN [z |-> SquareAdd(st.z, c), n |-> st.n + 1]
  ELSE st

\* mandelbrot.py:124-127 for one element of the grid: the pass i of the loop
\* updates Z and sets M to i while abs(Z) <= 2
OptimizedPass(st, c) ==
  IF AbsLe2(st.z)
  THEN [z |-> SquareAdd(st.z, c), n |-> st.n + 1, m |-> st.n]
  ELSE [st EXCEPT !.n = st.n + 1]

\* julia.py:13-16, one test and pass of the loop
JuliaPass(st, c, max_iter) ==
  IF Norm2(st.z) < 4 * Q * Q /\ st.n < max_iter
  THEN [z |-> SquareAdd(st.z, c), n |-> st.n + 1]
  ELSE st

\* one test of the condition of a loop followed, when it holds, by one pass
\* of its body; once the test has failed the loop is over and the state stays
Pass(kind, st, c, max_iter) ==
  IF kind = "mandelbrot" THEN MandelbrotPass(st, c, max_iter)
  ELSE IF kind = "optimized" THEN OptimizedPass(st, c)
  ELSE JuliaPass(st, c, max_iter)

\* a loop of at most count passes run from the state st; the passes are made
\* in two halves, the second one unless the loop is over after the first,
\* which keeps the nesting of the evaluation low
RECURSIVE Passes(_, _, _, _, _)
Passes(kind, st, c, max_iter, count) ==
  IF count <= 0 THEN st
  ELSE IF count = 1 THEN Pass(kind, st, c, max_iter)
  ELSE LET half == Passes(kind, st, c, max_iter, count \div 2)
       IN  IF Pass(kind, half, c, max_iter) = half THEN half
           ELSE Passes(kind, half, c, max_iter, count - count \div 2)

\* the loop with n < max_iter - 1 as its second test
mandelbrot_loop_one_less(z, n, c, max_iter) ==
  Passes("mandelbrot", [z |-> z, n |-> n], c, max_iter - 1, max_iter - 1 - n).n

\* mandelbrot.py:20-24 (also 207-209), the loop from the values z and n: it
\* makes at most max_iter - n passes
mandelbrot_loop(z, n, c, max_iter) ==
  Passes("mandelbrot", [z |-> z, n |-> n], c, max_iter, max_iter - n).n

\* mandelbrot.py:6-24
mandelbrot_iteration(c, max_iter) == mandelbrot_loop(<<0, 0>>, 0, c, max_iter)

\* mandelbrot.py:44-91, palette_type "psychedelic": sin(t * 4 * pi + k) with
\* the angle taken to the nearest degree (2 rad = 115 deg, 4 rad = 229 deg)
Psychedelic(iteration, max_iter, shift) ==
  (128 * 10000 + 127 * Sin(RoundDiv(720 * iteration, max_iter) + shift)) \div 10000

\* mandelbrot.py:44-91; int() of the non-negative products is the floor
get_color_palette(iteration, max_iter, palette_type) ==
  IF iteration >= max_iter THEN Black
  ELSE IF palette_type = "fire"
  THEN IF 2 * iteration < max_iter
       THEN << (510 * iteration) \div max_iter,
               (1020 * iteration * iteration) \div (max_iter * max_iter), 0 >>
       ELSE << 255, 255, (255 * (2 * iteration - max_iter)) \div max_iter >>
  ELSE IF palette_type = "ocean"
  THEN << (100 * iteration) \div max_iter, (200 * iteration) \div max_iter,
          (255 * (max_iter + iteration)) \div (2 * max_iter) >>
  ELSE IF palette_type = "psychedelic"
  THEN << Psychedelic(iteration, max_iter, 0), Psychedelic(iteration, max_iter, 115),
          Psychedelic(iteration, max_iter, 229) >>
  ELSE LET intensity == (255 * iteration) \div max_iter
       IN  << intensity, intensity \div 2, 255 - intensity >>

\* mandelbrot.py:108-109 and 149-150, the region of the plane (offsets 0)
Region(zoom) ==
  [x_min |-> RoundDiv(-25 * Q, 10 * zoom), x_max |-> RoundDiv(15 * Q, 10 * zoom),
   y_min |-> RoundDiv(-15 * Q, 10 * zoom), y_max |-> RoundDiv(15 * Q, 10 * zoom)]

\* what set_at receives for a pixel, with the point the colour was computed for
Pixel(pos, z0, c, max_iter, n, color) ==
  [pos |-> pos, z0 |-> z0, c |-> c, max_iter |-> max_iter, n |-> n, color |-> color]

\* mandelbrot.py:155-167, one pixel of mandelbrot_basic
BasicPixel(size, iterations, zoom, palette, x_pixel, y_pixel) ==
  LET max_iter == Max(10, Min(iterations, 500))
      r == Region(zoom)
      real == r.x_min + RoundDiv((r.x_max - r.x_min) * x_pixel, size[1])
      imag == r.y_min + RoundDiv((r.y_max - r.y_min) * y_pixel, size[2])
      c == <<real, imag>>
      iter_count == mandelbrot_iteration(c, max_iter)
  IN  Pixel(<<x_pixel, y_pixel>>, <<0, 0>>, c, max_iter, iter_count,
            get_color_palette(iter_count, max_iter, palette))

\* np.linspace(lo, hi, num)[j]
Linspace(lo, hi, num, j) ==
  IF num = 1 THEN lo ELSE lo + RoundDiv((hi - lo) * j, num - 1)

\* mandelbrot.py:119-127, the value of M for one element after range(max_iter)
OptimizedCount(c, max_iter) ==
  Passes("optimized", [z |-> <<0, 0>>, n |-> 0, m |-> 0], c, max_iter, max_iter).m

\* mandelbrot.py:104-134, one pixel of mandelbrot_optimized
OptimizedPixel(size, iterations, zoom, palette, x_pixel, y_pixel) ==
  LET max_iter == Max(10, Min(iterations, 1000))
      r == Region(zoom)
      c == << Linspace(r.x_min, r.x_max, size[1], x_pixel),
              Linspace(r.y_min, r.y_max, size[2], y_pixel) >>
      m == OptimizedCount(c, max_iter)
  IN  Pixel(<<x_pixel, y_pixel>>, <<0, 0>>, c, max_iter, m,
            get_color_palette(m, max_iter, palette))

\* mandelbrot.py:181-213, one pixel of mandelbrot_julia_morph; morph_factor
\* per mille
MorphPixel(size, iterations, morph_factor, x_pixel, y_pixel) ==
  LET max_iter == Max(10, Min(iterations, 200))
      julia_c == << RoundDiv(-7 * Q, 10) + RoundDiv(morph_factor * 4 * Q, 10000),
                    RoundDiv(RoundDiv(27015 * Q, 100000) * morph_factor, 1000) >>
      real == RoundDiv(3 * Q * (2 * x_pixel - size[1]), size[1])
      imag == RoundDiv(2 * Q * (2 * y_pixel - size[2]), size[2])
      c == IF morph_factor < 500 THEN <<real, imag>> ELSE julia_c
      z == IF morph_factor < 500 THEN <<0, 0>> ELSE <<real, imag>>
      n == mandelbrot_loop(z, 0, c, max_iter)
  IN  Pixel(<<x_pixel, y_pixel>>, z, c, max_iter, n,
            get_color_palette(n, max_iter, "psychedelic"))

\* julia.py:11-16
JuliaLoop(z, c, iteration, max_iter) ==
  Passes("julia", [z |-> z, n |-> iteration], c, max_iter, max_iter - iteration).n

\* julia.py:3-20, one pixel of julia.draw
JuliaPixel(size, iterations, x, y) ==
  LET max_iter == Max(10, iterations)
      c == << RoundDiv(-7 * Q, 10), RoundDiv(27015 * Q, 100000) >>
      z == << RoundDiv(3 * Q * (2 * x - size[1]), 2 * size[1]),
              RoundDiv(Q * (2 * y - size[2]), size[2]) >>
      iteration == JuliaLoop(z, c, 0, max_iter)
      color_value == 255 - (iteration * 255) \div max_iter
  IN  Pixel(<<x, y>>, z, c, max_iter, iteration,
            << color_value, color_value \div 2, 255 - color_value >>)

\* the pixels set so far: their number, a digest of them, and the last one
PixelOut(ops) == [ops |-> ops, pixels |-> 0, digest |-> 0, last |-> NoCall]

Plot(o, px) ==
  [o EXCEPT !.pixels = o.pixels + 1,
            !.digest = (o.digest * 31 + px.pos[1] * 7 + px.pos[2] * 11 + px.color[1] * 3
                        + px.color[2] * 5 + px.color[3] + 1) % 65521,
            !.last = px]

\* the loop variables of a render: method, arguments and the next pixel
Cursor(method, iterations, zoom, palette, morph_factor) ==
  [method |-> method, iterations |-> iterations, zoom |-> zoom, palette |-> palette,
   morph_factor |-> morph_factor, x |-> 0, y |-> 0]

\* for x in range(width): for y in range(height)
NextColumnFirst(c, size) ==
  IF c.y + 1 < size[2] THEN [c EXCEPT !.y = c.y + 1]
  ELSE [c EXCEPT !.x = c.x + 1, !.y = 0]

\* for y_pixel in range(height): for x_pixel in range(width)
NextRowFirst(c, size) ==
  IF c.x + 1 < size[1] THEN [c EXCEPT !.x = c.x + 1]
  ELSE [c EXCEPT !.y = c.y + 1, !.x = 0]

InsideRaster(c, size) == c.x < size[1] /\ c.y < size[2]

\* a direct call of one of the render functions
EscapeTimeCall ==
  /\ pc = "call"
  /\ fn \in {"mandelbrot_basic", "mandelbrot_optimized", "mandelbrot_julia_morph",
             "julia.draw"}
  /\ loop' = Cursor(IF fn = "mandelbrot_basic" THEN "basic"
                    ELSE IF fn = "mandelbrot_optimized" THEN "optimized"
                    ELSE IF fn = "mandelbrot_julia_morph" THEN "morph" ELSE "julia",
                    args.iterations, args.zoom, args.palette, args.morph_factor)
  /\ out' = PixelOut(<< >>)
  /\ pc' = "pixels"
  /\ UNCHANGED <<app, prev, fn, args, rng, stack>>

\* mandelbrot.py:226-243, draw up to the call of the method it selects
MandelbrotDrawCall ==
  /\ pc = "call"
  /\ fn = "mandelbrot.draw"
  /\ loop' = IF args.iterations <= 50
             THEN Cursor("basic", args.iterations, 1, "default", 0)
             ELSE IF args.iterations <= 100
             THEN Cursor("basic", args.iterations, 1, "fire", 0)
             ELSE Cursor("optimized", args.iterations, 1, "ocean", 0)
  /\ out' = PixelOut(<< FillOp >>)
  /\ pc' = "pixels"
  /\ UNCHANGED <<app, prev, fn, args, rng, stack>>

\* one pass of the inner loop of mandelbrot_basic
BasicStep ==
  /\ pc = "pixels"
  /\ loop.method = "basic"
  /\ InsideRaster(loop, args.size)
  /\ out' = Plot(out, BasicPixel(args.size, loop.iterations, loop.zoom, loop.palette,
                                 loop.x, loop.y))
  /\ loop' = NextColumnFirst(loop, args.size)
  /\ UNCHANGED <<app, prev, fn, args, pc, rng, stack>>

\* one pass of the inner loop of mandelbrot.py:131-134
OptimizedStep ==
  /\ pc = "pixels"
  /\ loop.method = "optimized"
  /\ InsideRaster(loop, args.size)
  /\ out' = Plot(out, OptimizedPixel(args.size, loop.iterations, loop.zoom, loop.palette,
                                     loop.x, loop.y))
  /\ loop' = NextRowFirst(loop, args.size)
  /\ UNCHANGED <<app, prev, fn, args, pc, rng, stack>>

\* one pass of the inner loop of mandelbrot_julia_morph
MorphStep ==
  /\ pc = "pixels"
  /\ loop.method = "morph"
  /\ InsideRaster(loop, args.size)
  /\ out' = Plot(out, MorphPixel(args.size, loop.iterations, loop.morph_factor,
                                 loop.x, loop.y))
  /\ loop' = NextColumnFirst(loop, args.size)
  /\ UNCHANGED <<app, prev, fn, args, pc, rng, stack>>

\* one pass of the inner loop of julia.draw
JuliaStep ==
  /\ pc = "pixels"
  /\ loop.method = "julia"
  /\ InsideRaster(loop, args.size)
  /\ out' = Plot(out, JuliaPixel(args.size, loop.iterations, loop.x, loop.y))
  /\ loop' = NextColumnFirst(loop, args.size)
  /\ UNCHANGED <<app, prev, fn, args, pc, rng, stack>>

\* milliseconds of pygame.time.get_ticks() that a render may take
RenderTimes == {400, 2000, 2600}

\* the loops are over; mandelbrot.py:245-253: draw measures the time the
\* render took and blits a warning when it is above 2.0 seconds
EscapeTimeReturn ==
  /\ pc = "pixels"
  /\ ~InsideRaster(loop, args.size)
  /\ \E render_time \in RenderTimes :
       out' = [out EXCEPT !.ops = out.ops \o (IF fn = "mandelbrot.draw" /\ render_time > 2000
                                              THEN << TextOp(Warning) >> ELSE << >>)]
  /\ loop' = NoLoop
  /\ pc' = "done"
  /\ UNCHANGED <<app, prev, fn, args, rng, stack>>

\* a call of mandelbrot_iteration
MandelbrotIterationCall ==
  /\ pc = "call"
  /\ fn = "mandelbrot_iteration"
  /\ out' = [n |-> mandelbrot_iteration(args.c, args.max_iter)]
  /\ pc' = "done"
  /\ UNCHANGED <<app, prev, fn, args, rng, loop, stack>>

-----------------------------------------------------------------------------
(* The escape-time functions called on a fresh raster                      *)

\* largest max_iter given to mandelbrot_iteration
MaxIter == 12

\* points c = (i / 4, j / 4) with |i| <= GridRe and |j| <= GridIm
GridRe == 10

GridIm == 6

EscapeSizes == { <<8, 6>>, <<5, 5>>, <<1, 3>> }

Palettes == {"default", "fire", "ocean", "psychedelic"}

RenderArgs(sz, iterations, zoom, palette, morph_factor) ==
  [size |-> sz, iterations |-> iterations, zoom |-> zoom, palette |-> palette,
   morph_factor |-> morph_factor]

IterationInputs ==
  { [c |-> <<(i * Q) \div 4, (j * Q) \div 4>>, max_iter |-> m] :
      i \in (-GridRe)..GridRe, j \in (-GridIm)..GridIm, m \in 0..MaxIter }

BasicInputs ==
  { RenderArgs(sz, it, z, p, 0) :
      sz \in EscapeSizes, it \in {0, 10, 24}, z \in {1, 2}, p \in Palettes }

MorphInputs ==
  { RenderArgs(sz, it, 1, "psychedelic", mf) :
      sz \in EscapeSizes, it \in {0, 10, 24}, mf \in {0, 300, 500, 1000} }

JuliaInputs ==
  { RenderArgs(sz, it, 1, "default", 0) : sz \in EscapeSizes, it \in {0, 3, 10, 24, 100} }

MandelbrotDrawInputs ==
  { RenderArgs(sz, it, 1, "default", 0) :
      sz \in EscapeSizes, it \in {0, 3, 50, 51, 100, 101} }

InitEscapeTime ==
  /\ \/ fn = "mandelbrot_iteration" /\ args \in IterationInputs
     \/ fn \in {"mandelbrot_basic", "mandelbrot_optimized"} /\ args \in BasicInputs
     \/ fn = "mandelbrot_julia_morph" /\ args \in MorphInputs
     \/ fn = "julia.draw" /\ args \in JuliaInputs
     \/ fn = "mandelbrot.draw" /\ args \in MandelbrotDrawInputs
  /\ out = NoOut
  /\ pc = "call"
  /\ rng = 1
  /\ loop = NoLoop
  /\ stack = << >>
  /\ prev = NoOut
  /\ app = NoApp

NextEscapeTime ==
  \/ MandelbrotIterationCall
  \/ EscapeTimeCall
  \/ MandelbrotDrawCall
  \/ BasicStep
  \/ OptimizedStep
  \/ MorphStep
  \/ JuliaStep
  \/ EscapeTimeReturn

SpecEscapeTime == InitEscapeTime /\ [][NextEscapeTime]_vars

-----------------------------------------------------------------------------
(* Claims about the escape-time functions                                  *)

\* z_k of the orbit z_0 = 0, z_{k+1} = z_k^2 + c
RECURSIVE Orbit(_, _)
Orbit(k, c) == IF k = 0 THEN <<0, 0>> ELSE SquareAdd(Orbit(k - 1, c), c)

\* C4: mandelbrot_iteration(c, max_iter) returns the least n with |z_n| > 2
\* when such an n <= max_iter exists and max_iter otherwise, and the result
\* satisfies 0 <= n <= max_iter: no z_k before the result is outside the
\* disc, and a result below max_iter is the index of a z_n outside it.
C4_LeastEscape ==
  (pc = "done" /\ fn = "mandelbrot_iteration") =>
    /\ 0 <= out.n /\ out.n <= args.max_iter
    /\ \A k \in 0..(out.n - 1) : AbsLe2(Orbit(k, args.c))
    /\ out.n < args.max_iter => ~AbsLe2(Orbit(out.n, args.c))

\* the orbit of c = -2 stays on the circle |z| = 2 and is never counted as
\* escaped; another point has left the disc midway
C4_Witness ==
  /\ pc = "done"
  /\ fn = "mandelbrot_iteration"
  /\ \/ args.c = <<-2 * Q, 0>> /\ args.max_iter = MaxIter /\ out.n = MaxIter
     \/ out.n > 2 /\ out.n < args.max_iter

\* the orbit z, z^2 + c, ... followed while it stays in the disc |z| <= 2
RECURSIVE Follow(_, _, _)
Follow(z, c, k) ==
  IF k <= 0 \/ ~AbsLe2(z) THEN z
  ELSE IF k = 1 THEN SquareAdd(z, c)
  ELSE Follow(Follow(z, c, k \div 2), c, k - k \div 2)

\* |z_k| <= 2 for the k + 1 points z, z^2 + c, ... of an orbit
StaysInside(z, c, k) == AbsLe2(Follow(z, c, k))

\* C5: in every escape-time render path (mandelbrot_basic,
\* mandelbrot_optimized, mandelbrot_julia_morph, julia.draw) a pixel whose
\* point does not escape within max_iter iterations is coloured black.
C5_InsideIsBlack ==
  (pc = "pixels" /\ out.pixels > 0
     /\ StaysInside(out.last.z0, out.last.c, out.last.max_iter)) =>
    out.last.color = Black

\* largest max_iter given to mandelbrot_iteration for the two known points
KnownMaxIter == 60

\* c = 0, a point of the set, and c = 2 + 2i, a point outside it
KnownPointInputs ==
  { [c |-> c, max_iter |-> m] : c \in { <<0, 0>>, <<2 * Q, 2 * Q>> }, m \in 0..KnownMaxIter }

InitKnownPoints ==
  /\ fn = "mandelbrot_iteration"
  /\ args \in KnownPointInputs
  /\ out = NoOut
  /\ pc = "call"
  /\ rng = 1
  /\ loop = NoLoop
  /\ stack = << >>
  /\ prev = NoOut
  /\ app = NoApp

NextKnownPoints == MandelbrotIterationCall

SpecKnownPoints == InitKnownPoints /\ [][NextKnownPoints]_vars

\* C16: mandelbrot_iteration(0, max_iter) returns max_iter for every
\* max_iter >= 1, and mandelbrot_iteration(2 + 2i, max_iter) returns less
\* than max_iter for every max_iter >= 5.
C16_KnownPoints ==
  (pc = "done" /\ fn = "mandelbrot_iteration") =>
    /\ (args.c = <<0, 0>> /\ args.max_iter >= 1) => out.n = args.max_iter
    /\ (args.c = <<2 * Q, 2 * Q>> /\ args.max_iter >= 5) => out.n < args.max_iter

\* 2 + 2i leaves the disc at its first pass
C16_Witness ==
  /\ pc = "done"
  /\ fn = "mandelbrot_iteration"
  /\ args.c = <<2 * Q, 2 * Q>>
  /\ args.max_iter = 5
  /\ out.n = 1

\* the four render functions called with iterations below, at and above the
\* ceilings 200, 500 and 1000 of their caps
CapIterations == {-5, 0, 10, 11, 200, 201, 500, 501, 1000, 1001, 1500}

CapInputs(name) ==
  { RenderArgs(sz, it, 1, "default", mf) :
      sz \in { <<1, 3>>, <<3, 2>> }, it \in CapIterations,
      mf \in (IF name = "mandelbrot_julia_morph" THEN {0, 1000} ELSE {0}) }

EscapeTimeEntries ==
  {"mandelbrot_basic", "mandelbrot_optimized", "mandelbrot_julia_morph", "julia.draw"}

InitCap ==
  /\ \E name \in EscapeTimeEntries : fn = name /\ args \in CapInputs(name)
  /\ out = NoOut
  /\ pc = "call"
  /\ rng = 1
  /\ loop = NoLoop
  /\ stack = << >>
  /\ prev = NoOut
  /\ app = NoApp

NextCap ==
  \/ EscapeTimeCall
  \/ BasicStep
  \/ OptimizedStep
  \/ MorphStep
  \/ JuliaStep
  \/ EscapeTimeReturn

SpecCap == InitCap /\ [][NextCap]_vars

\* C12: each of mandelbrot_basic, mandelbrot_optimized,
\* mandelbrot_julia_morph and julia.draw runs the loop of every pixel with a
\* cap of at most 1000 passes, whatever iterations its caller gave.
C12_CapAtMost1000 ==
  (pc = "pixels" /\ fn \in EscapeTimeEntries /\ out.pixels > 0) =>
    /\ out.last.max_iter <= 1000
    /\ out.last.n <= 1000

-----------------------------------------------------------------------------
(* koch.py:76-171, koch_snowflake and draw                                 *)

Cyan == <<0, 255, 255>>

\* koch.py:92-108, the three curves of the snowflake, one after the other
koch_snowflake(center, radius, depth, size, color, line_width) ==
  LET vertices ==
        [i \in 1..4 |->
           << center[1] + RoundDiv(radius * Cos(120 * (i - 1) - 90), 10000),
              center[2] + RoundDiv(radius * Sin(120 * (i - 1) - 90), 10000) >>]
  IN  KochCalls(vertices, 1, 3, depth, size, color, line_width, 0, 0, 1)

\* koch.py:160-171, the note blitted for high iteration counts
KochNote(iterations) ==
  IF iterations > 6 THEN << TextOp(Warning) >> ELSE << >>

\* koch.py:110-171: what draw puts on the surface, whether it ended with an
\* exception, and the deepest nesting of calls of koch_curve below it
KochDraw(size, iterations) ==
  LET width == size[1]
      height == size[2]
      margin == RoundDiv(Px(Min(width, height)), 10)
      base_line_width == Max(1, Min(3, width \div 400))
      line_width == Max(1, base_line_width - iterations \div 3)
      intensity == Min(255, 120 + iterations * 25)
      color_variation == Min(50, (50 * (iterations - 4)) \div 3)
      r == IF iterations <= 4
           THEN koch_curve(<<margin, RoundDiv(Px(height), 2)>>,
                           <<Px(width) - margin, RoundDiv(Px(height), 2)>>,
                           iterations, size, <<intensity, intensity, 255>>, line_width,
                           0, 0, 1)
           ELSE koch_snowflake(<<RoundDiv(Px(width), 2), RoundDiv(Px(height), 2)>>,
                               RoundDiv(Px(Min(width, height)) * 35, 100),
                               iterations - 4, size,
                               <<Max(0, Cyan[1] - color_variation), Cyan[2],
                                 Min(255, Cyan[3] + color_variation)>>,
                               line_width)
  IN  [ops |-> << FillOp >> \o LinesPassed(r.visits)
                \o (IF r.raised THEN << >> ELSE KochNote(iterations)),
       raised |-> r.raised,
       nesting |-> r.nesting]

\* a call of koch.draw
KochDrawCall ==
  /\ pc = "call"
  /\ fn = "koch.draw"
  /\ out' = KochDraw(args.size, args.iterations)
  /\ pc' = "done"
  /\ UNCHANGED <<app, prev, fn, args, rng, loop, stack>>

-----------------------------------------------------------------------------
(* The five draw entries of main.py:39-45, each called twice in a row on a *)
(* fresh raster of the same size                                           *)

\* main.py:25 ("Arbol" stands for the key "Árbol")
max_iterations ==
  [Koch |-> 7, Sierpinski |-> 8, Mandelbrot |-> 100, Julia |-> 100, Arbol |-> 12]

\* main.py:39-45
FRACTAL_FUNCTIONS ==
  [Koch |-> "koch.draw", Sierpinski |-> "sierpinski.draw", Mandelbrot |-> "mandelbrot.draw",
   Julia |-> "julia.draw", Arbol |-> "arbol.draw"]

Fractals == DOMAIN FRACTAL_FUNCTIONS

KochDrawSizes == { <<300, 200>>, <<1000, 800>> }

\* largest iterations given to arbol.draw: above 12 it draws the stochastic tree
ArbolDrawMax == 13

DrawInputs(name) ==
  IF name = "Koch"
  THEN { [size |-> sz, iterations |-> i] : sz \in KochDrawSizes, i \in (-1)..max_iterations.Koch }
  ELSE IF name = "Sierpinski"
  THEN { [size |-> ChaosSize, iterations |-> i, failAt |-> 0] : i \in 0..max_iterations.Sierpinski }
  ELSE IF name = "Mandelbrot" THEN MandelbrotDrawInputs
  ELSE IF name = "Julia" THEN JuliaInputs
  ELSE { [size |-> <<300, 300>>, iterations |-> i, failAt |-> 0] : i \in (-1)..ArbolDrawMax }

InitDraw ==
  /\ \E name \in Fractals : fn = FRACTAL_FUNCTIONS[name] /\ args \in DrawInputs(name)
  /\ out = NoOut
  /\ pc = "call"
  /\ rng \in {1, 40503}
  /\ loop = NoLoop
  /\ stack = << >>
  /\ prev = NoOut
  /\ app = NoApp

\* the caller keeps what the first call put on its raster and calls the same
\* entry again with the same arguments on a fresh raster; the generator of
\* module random is in the state in which the first call left it
DrawAgain ==
  /\ pc = "done"
  /\ prev = NoOut
  /\ prev' = out
  /\ out' = NoOut
  /\ pc' = "call"
  /\ UNCHANGED <<app, fn, args, rng, loop, stack>>

NextDraw ==
  \/ KochDrawCall
  \/ SierpinskiDrawCall
  \/ ChaosStep
  \/ ChaosEnd
  \/ MandelbrotDrawCall
  \/ EscapeTimeCall
  \/ BasicStep
  \/ OptimizedStep
  \/ JuliaStep
  \/ EscapeTimeReturn
  \/ ArbolDrawCall
  \/ TreeRecursiveStep
  \/ TreeStochasticEnter
  \/ TreeStochasticBranch
  \/ TreeReturn
  \/ DrawAgain

SpecDraw == InitDraw /\ [][NextDraw]_vars

-----------------------------------------------------------------------------
(* Claims about the draw entries                                           *)

\* the iterations that the application gives to the entry under call
ValidIterations ==
  \E name \in Fractals :
    /\ fn = FRACTAL_FUNCTIONS[name]
    /\ 0 <= args.iterations /\ args.iterations <= max_iterations[name]

\* C6: for each of the five draw entries and every valid iterations value,
\* two calls on fresh rasters of the same size produce the identical sequence
\* of drawing operations and pixels, whatever the state of the random
\* generator and the clock before each call.
C6_SameOutput ==
  (pc = "done" /\ prev # NoOut /\ ValidIterations) => out = prev

\* C9: a draw entry called with a negative depth is rejected before any
\* drawing operation on the raster, the initial clear included, and before
\* any recursion starts.
C9_RejectedBeforeDrawing ==
  (pc = "done" /\ args.iterations < 0) =>
    /\ out.ops = << >>
    /\ fn = "koch.draw" => out.nesting = 0

-----------------------------------------------------------------------------
(* The count of the vectorized loop of mandelbrot_optimized and the count  *)
(* of mandelbrot_iteration for the same c and max_iter                     *)

\* max_iter of mandelbrot_optimized is at least 10 (mandelbrot.py:105)
CountInputs ==
  { [c |-> <<(i * Q) \div 4, (j * Q) \div 4>>, max_iter |-> m] :
      i \in (-GridRe)..GridRe, j \in (-GridIm)..GridIm, m \in 10..MaxIter }

InitCounts ==
  /\ fn = "iteration_counts"
  /\ args \in CountInputs
  /\ out = NoOut
  /\ pc = "call"
  /\ rng = 1
  /\ loop = NoLoop
  /\ stack = << >>
  /\ prev = NoOut
  /\ app = NoApp

\* mandelbrot.py:119-127 for the element c of the grid, and
\* mandelbrot_iteration(c, max_iter)
IterationCountsCall ==
  /\ pc = "call"
  /\ fn = "iteration_counts"
  /\ out' = [optimized |-> OptimizedCount(args.c, args.max_iter),
             iteration |-> mandelbrot_iteration(args.c, args.max_iter)]
  /\ pc' = "done"
  /\ UNCHANGED <<app, prev, fn, args, rng, loop, stack>>

NextCounts == IterationCountsCall

SpecCounts == InitCounts /\ [][NextCounts]_vars

\* C23: for the same c and the same max_iter, the count that the vectorized
\* loop of mandelbrot_optimized records in M for c equals
\* mandelbrot_iteration(c, max_iter).
C23_SameCount ==
  (fn = "iteration_counts" /\ pc = "done") => out.optimized = out.iteration

-----------------------------------------------------------------------------
(* The loop of julia.draw and the loop of mandelbrot_iteration, run from   *)
(* the same value of z with the same constant                              *)

\* the values of z are (2 i / 5, 2 j / 5) with |i|, |j| <= CriterionGrid
CriterionGrid == 6

\* largest max_iter of the two loops
CriterionMaxIter == 3

\* julia.py:4
JuliaConstant == << RoundDiv(-7 * Q, 10), RoundDiv(27015 * Q, 100000) >>

CriterionInputs ==
  { [z |-> <<(2 * i * Q) \div 5, (2 * j * Q) \div 5>>, c |-> JuliaConstant, max_iter |-> m] :
      i \in (-CriterionGrid)..CriterionGrid, j \in (-CriterionGrid)..CriterionGrid,
      m \in 0..CriterionMaxIter }

InitCriterion ==
  /\ fn = "escape_loops"
  /\ args \in CriterionInputs
  /\ out = NoOut
  /\ pc = "call"
  /\ rng = 1
  /\ loop = NoLoop
  /\ stack = << >>
  /\ prev = NoOut
  /\ app = NoApp

\* julia.py:11-16 and mandelbrot.py:18-24 from the same z: the number of
\* passes that each loop makes
EscapeLoopsCall ==
  /\ pc = "call"
  /\ fn = "escape_loops"
  /\ out' = [julia |-> JuliaLoop(args.z, args.c, 0, args.max_iter),
             mandelbrot |-> mandelbrot_loop(args.z, 0, args.c, args.max_iter)]
  /\ pc' = "done"
  /\ UNCHANGED <<app, prev, fn, args, rng, loop, stack>>

NextCriterion == EscapeLoopsCall

SpecCriterion == InitCriterion /\ [][NextCriterion]_vars

-----------------------------------------------------------------------------
(* utils.py: FractalCache                                                  *)

\* list.remove: the list without the first occurrence of x, which it holds
RemoveFirst(s, x) ==
  LET i == CHOOSE k \in 1..Len(s) : s[k] = x /\ \A j \in 1..(k - 1) : s[j] # x
  IN  SubSeq(s, 1, i - 1) \o SubSeq(s, i + 1, Len(s))

\* the keys of a list
Range(s) == { s[i] : i \in 1..Len(s) }

\* utils.py:254-257; cache is a function from the cached keys to surfaces
FractalCache(max_size) ==
  [cache |-> [k \in {} |-> "None"], max_size |-> max_size, access_order |-> << >>]

\* what a method gives back: the object after the call, the value returned,
\* the exception that left the method ("None": none) and the key whose
\* entry the call deleted ("None": none)
CacheResult(obj, value, raised, evicted) ==
  [obj |-> obj, value |-> value, raised |-> raised, evicted |-> evicted]

\* utils.py:267-274
get(c, key) ==
  IF key \in DOMAIN c.cache
  THEN IF key \in Range(c.access_order)
       THEN CacheResult([c EXCEPT !.access_order = Append(RemoveFirst(c.access_order, key), key)],
                        c.cache[key], "None", "None")
       ELSE CacheResult(c, "None", "ValueError", "None")
  ELSE CacheResult(c, "None", "None", "None")

\* a cache that evicts only above its size
IsFull_above(c) == Cardinality(DOMAIN c.cache) > c.max_size

\* utils.py:279
IsFull(c) == Cardinality(DOMAIN c.cache) >= c.max_size

\* utils.py:285-286
Store(c, key, surface) ==
  [c EXCEPT !.cache = [k \in DOMAIN c.cache \cup {key} |->
                         IF k = key THEN surface ELSE c.cache[k]],
            !.access_order = Append(c.access_order, key)]

\* utils.py:276-286; pop(0) of an empty list raises IndexError, del of a key
\* that is not cached raises KeyError after the pop
put(c, key, surface) ==
  IF IsFull(c)
  THEN IF c.access_order = << >> THEN CacheResult(c, "None", "IndexError", "None")
       ELSE LET oldest_key == Head(c.access_order)
                popped == [c EXCEPT !.access_order = Tail(c.access_order)]
            IN  IF oldest_key \notin DOMAIN c.cache
                THEN CacheResult(popped, "None", "KeyError", "None")
                ELSE CacheResult(
                       Store([popped EXCEPT !.cache =
                                [k \in DOMAIN c.cache \ {oldest_key} |-> c.cache[k]]],
                             key, surface),
                       "None", "None", oldest_key)
  ELSE CacheResult(Store(c, key, surface), "None", "None", "None")

\* utils.py:288-291
clear(c) == [c EXCEPT !.cache = [k \in {} |-> "None"], !.access_order = << >>]

-----------------------------------------------------------------------------
(* A FractalCache used by a caller that keeps, on its side, the cached keys *)
(* in the order of their last put or successful get                         *)

CacheKeys == {"k1", "k2", "k3"}

CacheSurfaces == {"s1", "s2"}

\* largest max_size of the caches
MaxCacheSize == 2

\* the caller stops putting when access_order has this length
MaxOrder == 4

InitCache ==
  /\ fn = "FractalCache"
  /\ \E m \in 1..MaxCacheSize : args = [max_size |-> m] /\ app = FractalCache(m)
  /\ out = NoOut
  /\ pc = "idle"
  /\ rng = 1
  /\ loop = NoLoop
  /\ stack = << >>
  /\ prev = [used |-> << >>]

CacheIdle == fn = "FractalCache" /\ pc = "idle"

\* the operation just made: what the cache was before it and what it gave
Called(op, key, r) ==
  [op |-> op, key |-> key, value |-> r.value, raised |-> r.raised, evicted |-> r.evicted,
   was_full |-> IsFull(app), size_before |-> Cardinality(DOMAIN app.cache),
   lru |-> IF prev.used = << >> THEN "None" ELSE Head(prev.used)]

\* the keys by last use, after key was used
Used(used, key) ==
  Append(SelectSeq(used, LAMBDA k : k # key), key)

CachePut ==
  /\ CacheIdle
  /\ Len(app.access_order) < MaxOrder
  /\ \E key \in CacheKeys, surface \in CacheSurfaces :
       LET r == put(app, key, surface)
       IN  /\ app' = r.obj
           /\ out' = Called("put", key, r)
           /\ prev' = [used |-> IF r.raised # "None" THEN prev.used
                                ELSE Used(SelectSeq(prev.used, LAMBDA k : k # r.evicted), key)]
  /\ UNCHANGED <<fn, args, pc, rng, loop, stack>>

CacheGet ==
  /\ CacheIdle
  /\ \E key \in CacheKeys :
       LET r == get(app, key)
       IN  /\ app' = r.obj
           /\ out' = Called("get", key, r)
           /\ prev' = [used |-> IF key \in DOMAIN app.cache /\ r.raised = "None"
                                THEN Used(prev.used, key) ELSE prev.used]
  /\ UNCHANGED <<fn, args, pc, rng, loop, stack>>

CacheClear ==
  /\ CacheIdle
  /\ app' = clear(app)
  /\ out' = Called("clear", "None", CacheResult(clear(app), "None", "None", "None"))
  /\ prev' = [used |-> << >>]
  /\ UNCHANGED <<fn, args, pc, rng, loop, stack>>

NextCache == CachePut \/ CacheGet \/ CacheClear

SpecCache == InitCache /\ [][NextCache]_vars

\* C25: after any sequence of put, get and clear on a FractalCache with
\* max_size >= 1, the number of cached entries never exceeds max_size.
C25_SizeBounded ==
  fn = "FractalCache" => Cardinality(DOMAIN app.cache) <= app.max_size

\* a put on a full cache of two entries has just evicted one and stored another
C25_Witness ==
  /\ fn = "FractalCache"
  /\ out # NoOut
  /\ out.op = "put"
  /\ out.was_full
  /\ out.evicted # "None"
  /\ app.max_size = MaxCacheSize
  /\ Cardinality(DOMAIN app.cache) = app.max_size

\* C26: a put on a full FractalCache evicts exactly one entry, the least
\* recently used one (the key whose last put or successful get is oldest),
\* and completes without raising, after any sequence of earlier put, get and
\* clear calls, puts of a key already cached included.
C26_EvictsLeastRecent ==
  (fn = "FractalCache" /\ out # NoOut /\ out.op = "put" /\ out.was_full) =>
    /\ out.raised = "None"
    /\ out.evicted = out.lru

\* C27: after any sequence of put, get and clear, access_order holds exactly
\* the keys of cache, each exactly once.
C27_OrderMatchesCache ==
  fn = "FractalCache" =>
    /\ Range(app.access_order) = DOMAIN app.cache
    /\ Len(app.access_order) = Cardinality(DOMAIN app.cache)

-----------------------------------------------------------------------------
(* The application: FractalVisualizer, its managers and its event handlers *)

\* pygame.Rect
Rect(left, top, width, height) ==
  [left |-> left, top |-> top, width |-> width, height |-> height]

\* pygame.Rect.collidepoint: the right and bottom edges are outside
collidepoint(rect, p) ==
  /\ rect.left <= p[1] /\ p[1] < rect.left + rect.width
  /\ rect.top <= p[2] /\ p[2] < rect.top + rect.height

\* the window of the application
Screen == [WIDTH |-> 1200, HEIGHT |-> 800]

fractal_area == Rect(200, 0, Screen.WIDTH - 200, Screen.HEIGHT)

\* UIManager: the side panel and its buttons ("Arbol" stands for "Árbol")
panel_rect == Rect(0, 0, 200, Screen.HEIGHT)

fractals == <<"Koch", "Sierpinski", "Mandelbrot", "Julia", "Arbol">>

Button(x, y, width, height, action) == [rect |-> Rect(x, y, width, height), action |-> action]

fractal_buttons ==
  [i \in 1..Len(fractals) |-> Button(10, 50 + (i - 1) * 45, 180, 35, fractals[i])]

action_buttons == <<Button(10, 300, 85, 30, "reset"), Button(105, 300, 85, 30, "save")>>

\* the action of the first button of the list under the mouse, else "None"
FirstHit(buttons, mouse_pos) ==
  LET hit == { i \in DOMAIN buttons : collidepoint(buttons[i].rect, mouse_pos) }
  IN  IF hit = {} THEN "None"
      ELSE buttons[CHOOSE i \in hit : \A j \in hit : i <= j].action

handle_click(mouse_pos) ==
  IF ~collidepoint(panel_rect, mouse_pos) THEN "None"
  ELSE IF FirstHit(fractal_buttons, mouse_pos) # "None" THEN FirstHit(fractal_buttons, mouse_pos)
  ELSE FirstHit(action_buttons, mouse_pos)

\* TransformManager after construction; scales are in thousandths, angles in
\* whole degrees, offsets in pixels
TransformManager ==
  [current_scale |-> 1000, angle |-> 0, offset |-> <<0, 0>>, min_scale |-> 100, max_scale |-> 50000]

reset(t) == [t EXCEPT !.current_scale = 1000, !.angle = 0, !.offset = <<0, 0>>]

\* a scale_factor that takes every result
scale_factor_unchecked(t, factor) ==
  [t EXCEPT !.current_scale = RoundDiv(t.current_scale * factor, 1000)]

\* factor in thousandths
scale_factor(t, factor) ==
  LET new_scale == RoundDiv(t.current_scale * factor, 1000)
  IN  IF t.min_scale <= new_scale /\ new_scale <= t.max_scale
      THEN [t EXCEPT !.current_scale = new_scale]
      ELSE t

scale(t, factor) == scale_factor(t, factor)

rotate(t, degrees) == [t EXCEPT !.angle = (t.angle + degrees) % 360]

translate(t, dx, dy) == [t EXCEPT !.offset = <<t.offset[1] + dx, t.offset[2] + dy>>]

\* FractalVisualizer after construction
FractalVisualizer ==
  [selected_fractal |-> "Koch", iterations |-> 3, transform_manager |-> TransformManager,
   dragging |-> FALSE, last_mouse_pos |-> <<0, 0>>, render_cache |-> {}]

\* a clear_cache that leaves the entries
clear_cache_keeps(a) == a

\* main.py:150-152
clear_cache(a) == [a EXCEPT !.render_cache = {}]

\* round(current_scale, 2) is in hundredths
get_cache_key(a) ==
  <<a.selected_fractal, a.iterations, RoundDiv(a.transform_manager.current_scale, 10),
    a.transform_manager.angle, a.transform_manager.offset>>

\* handle_keyboard: the object after the key
Keyboard(a, key) ==
  IF key = "K_UP"
  THEN IF a.iterations < max_iterations[a.selected_fractal]
       THEN clear_cache([a EXCEPT !.iterations = a.iterations + 1])
       ELSE a
  ELSE IF key = "K_DOWN" /\ a.iterations > 0
  THEN clear_cache([a EXCEPT !.iterations = a.iterations - 1])
  ELSE IF key = "K_r" THEN [a EXCEPT !.transform_manager = rotate(a.transform_manager, 5)]
  ELSE IF key = "K_e" THEN [a EXCEPT !.transform_manager = rotate(a.transform_manager, -5)]
  ELSE IF key \in {"K_EQUALS", "K_KP_PLUS"}
  THEN [a EXCEPT !.transform_manager = scale_factor(a.transform_manager, 1100)]
  ELSE IF key \in {"K_MINUS", "K_KP_MINUS"}
  THEN [a EXCEPT !.transform_manager = scale_factor(a.transform_manager, 900)]
  ELSE IF key = "K_0" THEN clear_cache([a EXCEPT !.transform_manager = reset(a.transform_manager)])
  ELSE a

\* handle_mouse_down, the click on a fractal button without the clamp
SelectFractal_no_clamp(a, new_selection) ==
  clear_cache([a EXCEPT !.selected_fractal = new_selection])

\* handle_mouse_down, the click on a fractal button
SelectFractal(a, new_selection) ==
  clear_cache([a EXCEPT !.selected_fractal = new_selection,
                        !.iterations = Min(a.iterations, max_iterations[new_selection])])

\* handle_mouse_down: the object after the button went down at mouse_pos
MouseDown(a, button, mouse_pos) ==
  IF button = 1
  THEN LET new_selection == handle_click(mouse_pos)
       IN  IF new_selection # "None"
           THEN IF new_selection \in Fractals THEN SelectFractal(a, new_selection)
                ELSE IF new_selection = "reset"
                THEN [a EXCEPT !.transform_manager = reset(a.transform_manager)]
                ELSE a
           ELSE IF collidepoint(fractal_area, mouse_pos)
           THEN [a EXCEPT !.dragging = TRUE, !.last_mouse_pos = mouse_pos]
           ELSE a
  ELSE a

\* a handle_mouse_up that leaves the drag on
MouseUp_keeps(a, button) == a

\* main.py:128-131
MouseUp(a, button) == IF button = 1 THEN [a EXCEPT !.dragging = FALSE] ELSE a

MouseMotion(a, pos) ==
  IF a.dragging /\ collidepoint(fractal_area, pos)
  THEN [a EXCEPT !.transform_manager =
                   translate(a.transform_manager, pos[1] - a.last_mouse_pos[1],
                             pos[2] - a.last_mouse_pos[2]),
                 !.last_mouse_pos = pos]
  ELSE a

MouseWheel(a, y, mouse_pos) ==
  IF collidepoint(fractal_area, mouse_pos)
  THEN IF y > 0 THEN [a EXCEPT !.transform_manager = scale(a.transform_manager, 1100)]
       ELSE [a EXCEPT !.transform_manager = scale(a.transform_manager, 900)]
  ELSE a

\* the raster as the draw entry left it: its own size, not rotated, its
\* centre on the centre of the area
Untransformed(size) ==
  [size |-> size, smooth |-> FALSE, angle |-> 0, center |-> <<size[1] \div 2, size[2] \div 2>>]

\* TransformManager.apply_transformations on a raster of this size: the size
\* to which the raster is scaled, whether smoothscale does it, the angle by
\* which rotozoom turns it, and the point of the final surface on which the
\* centre of the result is put
apply_transformations(t, size) ==
  LET scales == Abs(t.current_scale - 1000) > 10
      new_width == Max(1, (size[1] * t.current_scale) \div 1000)
      new_height == Max(1, (size[2] * t.current_scale) \div 1000)
  IN  [size |-> IF scales THEN <<new_width, new_height>> ELSE size,
       smooth |-> scales /\ new_width > 10 /\ new_height > 10,
       angle |-> IF Abs(t.angle) > 0 THEN t.angle ELSE 0,
       center |-> <<size[1] \div 2 + t.offset[1], size[2] \div 2 + t.offset[2]>>]

\* the size of the surface that render_fractal creates
AreaSize == <<fractal_area.width, fractal_area.height>>

NoView == [none |-> TRUE]

Uncached == {"Mandelbrot", "Julia"}

\* render_fractal: whether the cached raster is returned
CacheHit(a) == a.selected_fractal \notin Uncached /\ get_cache_key(a) \in a.render_cache

\* render_fractal: what the frame gets.  raises: the draw entry, or
\* apply_transformations after it, raises an Exception.  The surface is the
\* cached one, the placeholder filled with ColorScheme.ERROR, the raster of
\* arbol.draw as it is, or the transformed raster of another draw entry;
\* view says where the raster of the draw entry lies on that surface.
Rendered(a, raises) ==
  [fractal |-> a.selected_fractal, entry |-> FRACTAL_FUNCTIONS[a.selected_fractal],
   iterations |-> a.iterations, cached |-> CacheHit(a),
   raised |-> ~CacheHit(a) /\ raises,
   surface |-> IF CacheHit(a) THEN "cached"
               ELSE IF raises THEN "error"
               ELSE IF a.selected_fractal = "Arbol" THEN "raster"
               ELSE "transformed",
   view |-> IF CacheHit(a) \/ raises THEN NoView
            ELSE IF a.selected_fractal = "Arbol" THEN Untransformed(AreaSize)
            ELSE apply_transformations(a.transform_manager, AreaSize)]

\* render_fractal storing the key although the draw entry raised
Render_store_always(a, raises) ==
  IF CacheHit(a) \/ a.selected_fractal \in Uncached THEN a
  ELSE [a EXCEPT !.render_cache = a.render_cache \cup {get_cache_key(a)}]

\* render_fractal: the object after the frame
Render(a, raises) ==
  IF CacheHit(a) \/ raises \/ a.selected_fractal \in Uncached THEN a
  ELSE [a EXCEPT !.render_cache = a.render_cache \cup {get_cache_key(a)}]

-----------------------------------------------------------------------------
(* A TransformManager under any sequence of calls of its methods           *)

\* factors in thousandths that the caller uses at every scale: doubling,
\* halving, zero and a negative one
ScaleFactors == {2000, 500, 0, -1000}

\* factors that the caller uses at the scales 2^k / 8 only: the two of the
\* application, a large and a small one
StepFactors == {1100, 900, 20000, 50}

PowerScales == { 125 * Pow(2, k) : k \in 0..8 }

RotateDegrees == {90}

TranslateSteps == {-10, 10}

\* the caller stops translating at this distance from the origin
MaxOffset == 10

InitTransform ==
  /\ fn = "TransformManager"
  /\ args = [none |-> TRUE]
  /\ out = NoOut
  /\ pc = "idle"
  /\ rng = 1
  /\ loop = NoLoop
  /\ stack = << >>
  /\ prev = NoOut
  /\ app = TransformManager

TransformIdle == fn = "TransformManager" /\ pc = "idle"

\* the call just made and the object before it
TransformCalled(method, argument) == [method |-> method, argument |-> argument, before |-> app]

TransformScale ==
  /\ TransformIdle
  /\ \E factor \in ScaleFactors \cup StepFactors, method \in {"scale", "scale_factor"} :
       /\ factor \in StepFactors => app.current_scale \in PowerScales
       /\ app' = IF method = "scale" THEN scale(app, factor) ELSE scale_factor(app, factor)
       /\ out' = TransformCalled(method, factor)
  /\ UNCHANGED <<prev, fn, args, pc, rng, loop, stack>>

TransformRotate ==
  /\ TransformIdle
  /\ \E degrees \in RotateDegrees :
       /\ app' = rotate(app, degrees)
       /\ out' = TransformCalled("rotate", degrees)
  /\ UNCHANGED <<prev, fn, args, pc, rng, loop, stack>>

TransformTranslate ==
  /\ TransformIdle
  /\ \E dx \in TranslateSteps, dy \in TranslateSteps :
       /\ 0 <= app.offset[1] + dx /\ app.offset[1] + dx <= MaxOffset
       /\ Abs(app.offset[2] + dy) <= MaxOffset
       /\ app' = translate(app, dx, dy)
       /\ out' = TransformCalled("translate", <<dx, dy>>)
  /\ UNCHANGED <<prev, fn, args, pc, rng, loop, stack>>

TransformReset ==
  /\ TransformIdle
  /\ app' = reset(app)
  /\ out' = TransformCalled("reset", 0)
  /\ UNCHANGED <<prev, fn, args, pc, rng, loop, stack>>

NextTransform == TransformScale \/ TransformRotate \/ TransformTranslate \/ TransformReset

SpecTransform == InitTransform /\ [][NextTransform]_vars

\* the product that the scale request asked for is outside the range
LeavesRange(t, factor) ==
  \/ RoundDiv(t.current_scale * factor, 1000) < 100
  \/ RoundDiv(t.current_scale * factor, 1000) > 50000

\* C29: after any sequence of scale, scale_factor, rotate, translate and
\* reset calls, current_scale is within [min_scale, max_scale] = [0.1, 50.0],
\* and a scale request whose result would leave the range changes neither
\* current_scale nor angle nor offset.
C29_ScaleInRange ==
  fn = "TransformManager" =>
    /\ app.min_scale = 100 /\ app.max_scale = 50000
    /\ 100 <= app.current_scale /\ app.current_scale <= 50000
    /\ (out # NoOut /\ out.method \in {"scale", "scale_factor"}
          /\ LeavesRange(out.before, out.argument)) =>
         app = out.before

\* a doubling was refused above half of max_scale, after a rotation and a
\* translation
C29_Witness ==
  /\ fn = "TransformManager"
  /\ out # NoOut
  /\ out.method = "scale"
  /\ out.argument = 2000
  /\ out.before.current_scale > 25000
  /\ app.current_scale > 25000
  /\ app.angle # 0
  /\ app.offset # <<0, 0>>

-----------------------------------------------------------------------------
(* The main loop of the application                                        *)

\* the keys of handle_keyboard
Keys ==
  {"K_UP", "K_DOWN", "K_r", "K_e", "K_EQUALS", "K_KP_PLUS", "K_MINUS", "K_KP_MINUS",
   "K_s", "K_0", "K_ESCAPE", "K_F11"}

TransformKeys == {"K_r", "K_e", "K_EQUALS", "K_KP_PLUS", "K_MINUS", "K_KP_MINUS"}

\* where the mouse is: on each button, on the panel beside and between the
\* buttons, on its last column, and on the fractal area
MousePositions ==
  { <<100, 50 + (i - 1) * 45 + 17>> : i \in 1..Len(fractals) }
    \cup { <<50, 315>>, <<150, 315>>, <<100, 90>>, <<100, 700>>, <<199, 400>>,
           <<600, 400>>, <<620, 410>> }

MouseButtons == {1, 3}

WheelMoves == {-1, 1}

\* where the wheel turns: on the last column of the panel and on the fractal area
WheelPositions == { <<199, 400>>, <<600, 400>> }

\* the user changes the view only from the view of reset
AtReset(a) == a.transform_manager = TransformManager

InitVisualizer ==
  /\ fn = "FractalVisualizer.run"
  /\ args = [none |-> TRUE]
  /\ out = NoOut
  /\ pc = "events"
  /\ rng = 1
  /\ loop = NoLoop
  /\ stack = << >>
  /\ prev = NoOut
  /\ app = FractalVisualizer

Running == fn = "FractalVisualizer.run" /\ pc = "events"

\* handle_events keeps the iterations that the object had before the event
Handled == prev' = [iterations |-> app.iterations]

handle_quit ==
  /\ Running
  /\ pc' = "quit"
  /\ Handled
  /\ UNCHANGED <<app, fn, args, out, rng, loop, stack>>

handle_keyboard ==
  /\ Running
  /\ \E key \in Keys :
       /\ key \in TransformKeys => AtReset(app)
       /\ app' = Keyboard(app, key)
       /\ pc' = IF key = "K_ESCAPE" THEN "quit" ELSE "events"
  /\ Handled
  /\ UNCHANGED <<fn, args, out, rng, loop, stack>>

handle_mouse_down ==
  /\ Running
  /\ \E button \in MouseButtons, mouse_pos \in MousePositions :
       app' = MouseDown(app, button, mouse_pos)
  /\ Handled
  /\ UNCHANGED <<fn, args, out, pc, rng, loop, stack>>

handle_mouse_up ==
  /\ Running
  /\ \E button \in MouseButtons : app' = MouseUp(app, button)
  /\ Handled
  /\ UNCHANGED <<fn, args, out, pc, rng, loop, stack>>

handle_mouse_motion ==
  /\ Running
  /\ \E pos \in MousePositions :
       /\ MouseMotion(app, pos).transform_manager # app.transform_manager => AtReset(app)
       /\ app' = MouseMotion(app, pos)
  /\ Handled
  /\ UNCHANGED <<fn, args, out, pc, rng, loop, stack>>

handle_mouse_wheel ==
  /\ Running
  /\ \E y \in WheelMoves, mouse_pos \in WheelPositions :
       /\ collidepoint(fractal_area, mouse_pos) => AtReset(app)
       /\ app' = MouseWheel(app, y, mouse_pos)
  /\ Handled
  /\ UNCHANGED <<fn, args, out, pc, rng, loop, stack>>

render_fractal ==
  /\ Running
  /\ \E raises \in BOOLEAN :
       /\ out' = Rendered(app, raises)
       /\ app' = Render(app, raises)
  /\ pc' = "frame"
  /\ UNCHANGED <<prev, fn, args, rng, loop, stack>>

\* run: the frame is shown and the loop goes back to the events
Flip ==
  /\ fn = "FractalVisualizer.run"
  /\ pc = "frame"
  /\ out' = NoOut
  /\ prev' = NoOut
  /\ pc' = "events"
  /\ UNCHANGED <<app, fn, args, rng, loop, stack>>

NextVisualizer ==
  \/ handle_quit
  \/ handle_keyboard
  \/ handle_mouse_down
  \/ handle_mouse_up
  \/ handle_mouse_motion
  \/ handle_mouse_wheel
  \/ render_fractal
  \/ Flip

SpecVisualizer == InitVisualizer /\ [][NextVisualizer]_vars

-----------------------------------------------------------------------------
(* The mouse handlers of FractalVisualizer, with the last event kept       *)

\* the caller stops dragging when an offset would pass this distance
MaxDrag == 40

\* the event just handled and the object before it
MouseEvent(type, button, pos) == [type |-> type, button |-> button, pos |-> pos, before |-> app]

\* a left-button press inside the fractal area that hits no UI control
DragPress(type, button, pos) ==
  /\ type = "MOUSEBUTTONDOWN"
  /\ button = 1
  /\ collidepoint(fractal_area, pos)
  /\ handle_click(pos) = "None"

\* whether, by the events alone, a drag is on after this event: a press that
\* starts one puts it on, a left-button release puts it off
Armed(armed, type, button, pos) ==
  IF DragPress(type, button, pos) THEN TRUE
  ELSE IF type = "MOUSEBUTTONUP" /\ button = 1 THEN FALSE
  ELSE armed

InitMouse ==
  /\ fn = "FractalVisualizer.handle_events"
  /\ args = [none |-> TRUE]
  /\ out = NoOut
  /\ pc = "events"
  /\ rng = 1
  /\ loop = NoLoop
  /\ stack = << >>
  /\ prev = [armed |-> FALSE]
  /\ app = FractalVisualizer

MouseIdle == fn = "FractalVisualizer.handle_events" /\ pc = "events"

mouse_down_event ==
  /\ MouseIdle
  /\ \E button \in MouseButtons, mouse_pos \in MousePositions :
       /\ app' = MouseDown(app, button, mouse_pos)
       /\ out' = MouseEvent("MOUSEBUTTONDOWN", button, mouse_pos)
       /\ prev' = [armed |-> Armed(prev.armed, "MOUSEBUTTONDOWN", button, mouse_pos)]
  /\ UNCHANGED <<fn, args, pc, rng, loop, stack>>

mouse_up_event ==
  /\ MouseIdle
  /\ \E button \in MouseButtons, mouse_pos \in MousePositions :
       /\ app' = MouseUp(app, button)
       /\ out' = MouseEvent("MOUSEBUTTONUP", button, mouse_pos)
       /\ prev' = [armed |-> Armed(prev.armed, "MOUSEBUTTONUP", button, mouse_pos)]
  /\ UNCHANGED <<fn, args, pc, rng, loop, stack>>

mouse_motion_event ==
  /\ MouseIdle
  /\ \E pos \in MousePositions :
       /\ Abs(MouseMotion(app, pos).transform_manager.offset[1]) <= MaxDrag
       /\ Abs(MouseMotion(app, pos).transform_manager.offset[2]) <= MaxDrag
       /\ app' = MouseMotion(app, pos)
       /\ out' = MouseEvent("MOUSEMOTION", 0, pos)
       /\ prev' = [armed |-> Armed(prev.armed, "MOUSEMOTION", 0, pos)]
  /\ UNCHANGED <<fn, args, pc, rng, loop, stack>>

NextMouse == mouse_down_event \/ mouse_up_event \/ mouse_motion_event

SpecMouse == InitMouse /\ [][NextMouse]_vars

-----------------------------------------------------------------------------
(* Claims about the application                                            *)

\* C10: in every reachable state of FractalVisualizer, after any sequence of
\* UP and DOWN keys and clicks on the fractal buttons, iterations is at least
\* 0 and at most max_iterations[selected_fractal], and every draw entry that
\* render_fractal calls gets a depth within the ceiling of its fractal.
C10_IterationsInRange ==
  fn = "FractalVisualizer.run" =>
    /\ 0 <= app.iterations
    /\ app.iterations <= max_iterations[app.selected_fractal]
    /\ (pc = "frame" /\ ~out.cached) =>
         /\ out.entry = FRACTAL_FUNCTIONS[out.fractal]
         /\ 0 <= out.iterations
         /\ out.iterations <= max_iterations[out.fractal]

\* koch.draw is called at its ceiling right after the click on its button
\* took the iterations down from the ceiling of Mandelbrot
C10_Witness ==
  /\ fn = "FractalVisualizer.run"
  /\ pc = "frame"
  /\ ~out.cached
  /\ out.entry = "koch.draw"
  /\ out.iterations = 7
  /\ prev # NoOut
  /\ prev.iterations = 100

\* C13: when the draw entry raises during render_fractal, the exception does
\* not leave render_fractal: the frame gets the error placeholder, the cache
\* holds nothing for the state that was rendered, and the main loop is at
\* the step that shows the frame and goes back to the events.
C13_ErrorPlaceholder ==
  fn = "FractalVisualizer.run" =>
    /\ pc \in {"events", "frame", "quit"}
    /\ (pc = "frame" /\ out.raised) =>
         /\ out.surface = "error"
         /\ get_cache_key(app) \notin app.render_cache
         /\ ENABLED Flip

\* the draw entry of a cached kind raised while the cache held other views
C13_Witness ==
  /\ fn = "FractalVisualizer.run"
  /\ pc = "frame"
  /\ out.raised
  /\ out.entry = "sierpinski.draw"
  /\ app.render_cache # {}

\* C21: for every fractal kind, the surface that render_fractal returns after
\* a render that did not raise is the raster of the draw entry with the
\* current scale, rotation and offset of the TransformManager applied to it.
C21_TransformApplied ==
  (fn = "FractalVisualizer.run" /\ pc = "frame" /\ ~out.cached /\ ~out.raised) =>
    out.view = apply_transformations(app.transform_manager, AreaSize)

\* C28: in every reachable state of FractalVisualizer, every key stored in
\* render_cache carries the selected fractal and the current iterations, and
\* that fractal is neither Mandelbrot nor Julia; a raster returned from the
\* cache was stored for the fractal and the depth of the frame.
C28_CacheIsCurrent ==
  fn = "FractalVisualizer.run" =>
    /\ \A key \in app.render_cache :
         /\ key[1] = app.selected_fractal
         /\ key[2] = app.iterations
         /\ key[1] \notin Uncached
    /\ (pc = "frame" /\ out.cached) =>
         /\ get_cache_key(app) \in app.render_cache
         /\ out.fractal = app.selected_fractal
         /\ out.iterations = app.iterations

\* a frame came from the cache while the cache held two views of the tree
\* at a depth that is not the one of construction
C28_Witness ==
  /\ fn = "FractalVisualizer.run"
  /\ pc = "frame"
  /\ out.cached
  /\ app.selected_fractal = "Arbol"
  /\ app.iterations = 4
  /\ Cardinality(app.render_cache) >= 2

====
